---- MODULE Spec2Model ----
(***************************************************************************)
(* The Gmail signup automation scripts, each as a state machine over the   *)
(* same variables.                                                         *)
(*                                                                         *)
(* Spec: the strategy-fallback loops of the debug scripts                  *)
(*   "workflow"  navigate-and-click-debug.js, the variant with the         *)
(*               CreateAccount and the PersonalUse loop                    *)
(*   "click"     navigate-and-click-debug.js, the variant with one loop    *)
(*               and a results list                                        *)
(*   "verbose"   navigate-and-debug-verbose.js, one loop, log only         *)
(* and the linear puppeteer-core signup script ("signup"), whose dump      *)
(* helper guards neither of its two steps.                                 *)
(*                                                                         *)
(* WfFairSpec: the workflow script alone, with fairness.                   *)
(* RetrySpec: the retrying signup script ("retry").                        *)
(* CaptureSpec: the navigate-and-capture scripts ("capture",               *)
(*   "captureXPath", "captureNames").                                      *)
(* LinearSpec: the linear signup scripts with a guarded dump               *)
(*   ("signupReal", "signupFull").                                         *)
(*                                                                         *)
(* The browser, the page and the file system are the environment: every    *)
(* awaited call on them either returns or raises, chosen with \E.  A       *)
(* browser.close that is the last call of a script is taken to return; in  *)
(* the retrying script, where code follows it, it may reject.              *)
(***************************************************************************)
EXTENDS Integers, Sequences, FiniteSets, TLC

\* Only the first MaxStrategies entries of each strategy list are run.
MaxStrategies == 3

\* The retrying signup script is run with MAX_RETRIES attempts at most; the
\* script itself sets MAX_RETRIES to 3000.
MAX_RETRIES == 2

Scripts == {"workflow", "click", "verbose", "signup"}

Min(a, b) == IF a <= b THEN a ELSE b

Take(s) == SubSeq(s, 1, Min(Len(s), MaxStrategies))

(***************************************************************************)
(* The strategy lists, by name and in source order.                        *)
(***************************************************************************)
createAccountStrategies ==
  Take(<<"inner-text", "css-href-signup", "xpath", "mouse-event">>)

personalUseStrategies ==
  Take(<<"inner-text", "css-attribute", "xpath", "mouse-event", "shadow-dom">>)

clickAttempts ==
  Take(<<"inner-text-click", "css-attribute-click", "attribute-contains-click",
         "xpath-click", "mouse-event-click", "nth-child-click",
         "keyboard-nav-enter", "shadow-dom-click">>)

verboseAttempts ==
  Take(<<"innerText-click", "clickByText-helper", "data-value-click",
         "attribute-contains-click", "xpath-click", "puppeteer-$eval",
         "keyboard-nav-enter", "raw-mouseevent", "nth-child-click",
         "shadow-root-click">>)

\* The message of the error a strategy's fn throws when it finds no element.
FnError(name) ==
  CASE name \in {"inner-text", "mouse-event"} -> "not found"
    [] name = "xpath" -> "xpath no node"
    [] name = "shadow-dom" -> "c-wiz not found"
    [] name = "inner-text-click" -> "No matching element by inner-text"
    [] name = "attribute-contains-click" -> "No matching element by attribute-contains"
    [] name = "innerText-click" -> "not found by innerText-click"
    [] name = "clickByText-helper" -> "helper no match"
    [] OTHER -> "No element found for selector"

\* What a call of a strategy's fn can do: the placeholder strategy of the
\* verbose script throws on every call.
FnOutcomes(name) ==
  IF name = "puppeteer-$eval" THEN {"raised"} ELSE {"returned", "raised"}

\* The message of a rejected page.content() / a throwing fs.writeFileSync.
ContentError == "page.content failed"

\* The message of a rejected page.evaluate.
EvaluateError == "Execution context was destroyed"

\* The message of the error the verification after a strategy throws.
CheckError(L) ==
  IF L = "CreateAccount" THEN "no choice screen" ELSE "redirected to sign-in"

(***************************************************************************)
(* dump(step, page): screenshot, then HTML.  shotFails / htmlFails say     *)
(* whether page.screenshot and page.content-or-writeFileSync raise in this *)
(* call.  The result says whether dump raises to its caller, which errors  *)
(* it logged, and which artifacts it wrote.                                *)
(***************************************************************************)
dumpWorkflow(shotFails, htmlFails) ==
  [raised |-> FALSE,
   logged |-> (IF shotFails THEN {"Screenshot failed"} ELSE {})
                \cup (IF htmlFails THEN {"HTML dump failed"} ELSE {}),
   png    |-> ~shotFails,
   html   |-> ~htmlFails]

dumpClick(shotFails, htmlFails) ==
  [raised |-> htmlFails,
   logged |-> IF shotFails THEN {"Screenshot failed"} ELSE {},
   png    |-> ~shotFails,
   html   |-> ~htmlFails]

dumpVerbose(shotFails, htmlFails) ==
  [raised |-> htmlFails,
   logged |-> IF shotFails THEN {"screenshot failed"} ELSE {},
   png    |-> ~shotFails,
   html   |-> ~htmlFails]

dumpSignup(shotFails, htmlFails) ==
  [raised |-> shotFails \/ htmlFails,
   logged |-> {},
   png    |-> ~shotFails,
   html   |-> ~shotFails /\ ~htmlFails]

\* Labels of dump calls: a fixed prefix and, for per-strategy dumps, the
\* strategy name appended to it.
Label(prefix, name) == [prefix |-> prefix, name |-> name]

VARIABLES
  script,                  \* which script runs
  pc,                      \* position in the script
  status,                  \* "running", "resolved", "rejected", "exit1"
  browserOpen,             \* launched and not yet closed
  loop,                    \* the loop being run, "none" outside the loops
  i,                       \* 1-based index of the current strategy
  err,                     \* message of the error caught last
  results,                 \* click script: results
  createAccountResults,    \* workflow script
  personalUseResults,      \* workflow script
  createAccountSucceeded,  \* workflow script
  personalUseSucceeded,    \* workflow script
  dumps,                   \* dump calls so far: label, loop, attempt, raised
  lastDump,                \* what the last dump call did
  tried,                   \* strategies invoked so far, with what they did
  logs,                    \* SUCCESS / FAIL log lines of the loops
  ended,                   \* loops left by break or by exhaustion
  escaped,                 \* loops left by an exception
  inFlight,                \* awaited calls made and not yet settled
  attempt,                 \* retrying script: the attempt number
  step,                    \* capture scripts: the step counter
  pageAt                   \* workflow: "home" after a goto that loaded it,
                           \* "unloaded" after one that failed, "acted" after a
                           \* strategy has acted on the page

vars == <<script, pc, status, browserOpen, loop, i, err, results,
          createAccountResults, personalUseResults, createAccountSucceeded,
          personalUseSucceeded, dumps, lastDump, tried, logs, ended, escaped,
          inFlight, attempt, step, pageAt>>

NoDump == [label |-> Label("", ""), raised |-> FALSE, logged |-> {},
           png |-> FALSE, html |-> FALSE, shotFailed |-> FALSE, htmlFailed |-> FALSE]

\* The state every script starts in.
Fresh ==
  /\ pc = "launch"
  /\ status = "running"
  /\ browserOpen = FALSE
  /\ loop = "none"
  /\ i = 0
  /\ err = ""
  /\ results = <<>>
  /\ createAccountResults = <<>>
  /\ personalUseResults = <<>>
  /\ createAccountSucceeded = FALSE
  /\ personalUseSucceeded = FALSE
  /\ dumps = <<>>
  /\ lastDump = NoDump
  /\ tried = <<>>
  /\ logs = <<>>
  /\ ended = {}
  /\ pageAt = "none"
  /\ escaped = {}
  /\ inFlight = {}
  /\ attempt = 0
  /\ step = 0

Init == script \in Scripts /\ Fresh

\* The bookkeeping of one dump call with outcome d, made during attempt
\* number k of the current loop (0: outside the attempts).
RecordDump(label, k, d, shotFails, htmlFails) ==
  /\ dumps' = Append(dumps, [label |-> label, loop |-> loop, attempt |-> k,
                             raised |-> d.raised])
  /\ lastDump' = [label |-> label, raised |-> d.raised, logged |-> d.logged,
                  png |-> d.png, html |-> d.html,
                  shotFailed |-> shotFails, htmlFailed |-> htmlFails]

\* A strategy invocation is recorded with what its fn did; the check field
\* is filled in when the verification after it has run.
Invoked(name, action) ==
  [loop |-> loop, name |-> name, action |-> action, check |-> "none"]

SetCheck(outcome) ==
  [tried EXCEPT ![Len(tried)].check = outcome]

(***************************************************************************)
(* await: the call is made, the script is suspended, and it goes on when   *)
(* the call has settled.  Awaited is the call the loop is suspended on at  *)
(* its position: the strategy's fn in the try block, the dump after it,    *)
(* and the dump of the catch block where the catch block has one.          *)
(***************************************************************************)
NoCall == [op |-> "none", loop |-> "none", i |-> 0]

Awaited ==
  CASE loop = "none" -> NoCall
    [] pc = "try" -> [op |-> "fn", loop |-> loop, i |-> i]
    [] pc = "afterDump" -> [op |-> "dump-after", loop |-> loop, i |-> i]
    [] pc = "catch" /\ script \in {"click", "verbose"} ->
         [op |-> "dump-fail", loop |-> loop, i |-> i]
    [] pc = "catch" /\ loop = "PersonalUse" /\ createAccountSucceeded ->
         [op |-> "dump-recover", loop |-> loop, i |-> i]
    [] OTHER -> NoCall

\* The awaited call is made: it is in flight until it settles.
Call ==
  /\ Awaited # NoCall
  /\ Awaited \notin inFlight
  /\ inFlight' = inFlight \cup {Awaited}
  /\ UNCHANGED <<script, pageAt, pc, status, browserOpen, loop, i, err, results,
                 createAccountResults, personalUseResults, createAccountSucceeded,
                 personalUseSucceeded, dumps, lastDump, tried, logs, ended, escaped,
                 attempt, step>>

\* The awaited call has settled and the script goes on.
Resumed ==
  /\ Awaited # NoCall => Awaited \in inFlight
  /\ inFlight' = inFlight \ {Awaited}


(***************************************************************************)
(* navigate-and-click-debug.js, workflow variant.                          *)
(***************************************************************************)
\* page.goto('https://gmail.com', ...) with its rejection caught: where the
\* page stands afterwards.
Navigated(gotoOk) == IF gotoOk THEN "home" ELSE "unloaded"

\* puppeteer.launch inside try / catch: a failed launch exits with status 1.
WfLaunch ==
  /\ script = "workflow" /\ pc = "launch"
  /\ \E ok \in BOOLEAN :
       IF ok
         THEN /\ pc' = "newPage" /\ browserOpen' = TRUE /\ status' = status
         ELSE /\ pc' = "exited" /\ status' = "exit1" /\ browserOpen' = browserOpen
  /\ UNCHANGED <<script, pageAt, inFlight, attempt, step, loop, i, err, results, createAccountResults,
                 personalUseResults, createAccountSucceeded, personalUseSucceeded,
                 dumps, lastDump, tried, logs, ended, escaped>>

\* browser.newPage is awaited outside any try: a rejection ends the script.
WfNewPage ==
  /\ script = "workflow" /\ pc = "newPage"
  /\ \E ok \in BOOLEAN :
       IF ok
         THEN /\ pc' = "gotoHome" /\ status' = status
         ELSE /\ pc' = "exited" /\ status' = "rejected"
  /\ UNCHANGED <<script, pageAt, inFlight, attempt, step, browserOpen, loop, i, err, results, createAccountResults,
                 personalUseResults, createAccountSucceeded, personalUseSucceeded,
                 dumps, lastDump, tried, logs, ended, escaped>>

\* Step 1: page.goto(...).catch(log), delay, dump('gmail-home'); then the
\* CreateAccount loop starts at its first strategy.  A rejected goto is
\* logged and nothing else.
WfGotoHome ==
  /\ script = "workflow" /\ pc = "gotoHome"
  /\ \E gotoOk \in BOOLEAN :
       /\ logs' = (IF gotoOk THEN logs
                    ELSE Append(logs, [tag |-> "ERROR", loop |-> "none",
                                       name |-> "Goto failed"]))
       /\ pageAt' = Navigated(gotoOk)
  /\ \E shotFails \in BOOLEAN, htmlFails \in BOOLEAN :
       RecordDump(Label("gmail-home", ""), 0,
                  dumpWorkflow(shotFails, htmlFails), shotFails, htmlFails)
  /\ pc' = "try" /\ loop' = "CreateAccount" /\ i' = 1
  /\ UNCHANGED <<script, inFlight, attempt, step, status, browserOpen, err, results, createAccountResults,
                 personalUseResults, createAccountSucceeded, personalUseSucceeded,
                 tried, ended, escaped>>

\* The call of an await expression of the two loops.
WfCall == script = "workflow" /\ Call

\* CreateAccount loop, try block: await strat.fn().
CreateAccountTry ==
  /\ script = "workflow" /\ loop = "CreateAccount" /\ pc = "try"
  /\ LET name == createAccountStrategies[i] IN
     \E o \in FnOutcomes(name) :
       /\ tried' = Append(tried, Invoked(name, o))
       /\ IF o = "returned"
            THEN /\ pc' = "afterDump" /\ err' = err
            ELSE /\ pc' = "catch" /\ err' = FnError(name)
  /\ pageAt' = "acted"
  /\ Resumed
  /\ UNCHANGED <<script, attempt, step, status, browserOpen, loop, i, results, createAccountResults,
                 personalUseResults, createAccountSucceeded, personalUseSucceeded,
                 dumps, lastDump, logs, ended, escaped>>

\* CreateAccount loop, try block: delay, dump(`after-createAccount-${name}`).
CreateAccountAfterDump ==
  /\ script = "workflow" /\ loop = "CreateAccount" /\ pc = "afterDump"
  /\ \E shotFails \in BOOLEAN, htmlFails \in BOOLEAN :
       RecordDump(Label("after-createAccount-", createAccountStrategies[i]), i,
                  dumpWorkflow(shotFails, htmlFails), shotFails, htmlFails)
  /\ pc' = "verify"
  /\ Resumed
  /\ UNCHANGED <<script, pageAt, attempt, step, status, browserOpen, loop, i, err, results,
                 createAccountResults, personalUseResults, createAccountSucceeded,
                 personalUseSucceeded, tried, logs, ended, escaped>>

\* CreateAccountVerify without the throw on a missing choice screen.
CreateAccountVerifyAcceptsAnyPage ==
  /\ script = "workflow" /\ loop = "CreateAccount" /\ pc = "verify"
  /\ LET name == createAccountStrategies[i] IN
     \E hasChoice \in {"true", "false", "raised"} :
       IF hasChoice # "raised"
         THEN /\ tried' = SetCheck(IF hasChoice = "true" THEN "passed" ELSE "failed")
              /\ logs' = Append(logs, [tag |-> "SUCCESS", loop |-> loop, name |-> name])
              /\ createAccountResults' =
                   Append(createAccountResults, [name |-> name, success |-> TRUE])
              /\ createAccountSucceeded' = TRUE
              /\ pc' = "loopEnd"
              /\ ended' = ended \cup {loop}
              /\ err' = err
         ELSE /\ tried' = SetCheck("raised")
              /\ err' = (IF hasChoice = "false" THEN CheckError(loop) ELSE EvaluateError)
              /\ pc' = "catch"
              /\ UNCHANGED <<logs, createAccountResults, createAccountSucceeded, ended>>
  /\ UNCHANGED <<script, pageAt, inFlight, attempt, step, status, browserOpen, loop, i, results, personalUseResults,
                 personalUseSucceeded, dumps, lastDump, escaped>>

\* CreateAccount loop, try block: hasChoice = page.evaluate(...); a missing
\* choice screen throws; otherwise log SUCCESS, push, set the flag, break.
CreateAccountVerify ==
  /\ script = "workflow" /\ loop = "CreateAccount" /\ pc = "verify"
  /\ LET name == createAccountStrategies[i] IN
     \E hasChoice \in {"true", "false", "raised"} :
       IF hasChoice = "true"
         THEN /\ tried' = SetCheck("passed")
              /\ logs' = Append(logs, [tag |-> "SUCCESS", loop |-> loop, name |-> name])
              /\ createAccountResults' =
                   Append(createAccountResults, [name |-> name, success |-> TRUE])
              /\ createAccountSucceeded' = TRUE
              /\ pc' = "loopEnd"
              /\ ended' = ended \cup {loop}
              /\ err' = err
         ELSE /\ tried' = SetCheck(IF hasChoice = "false" THEN "failed" ELSE "raised")
              /\ err' = (IF hasChoice = "false" THEN CheckError(loop) ELSE EvaluateError)
              /\ pc' = "catch"
              /\ UNCHANGED <<logs, createAccountResults, createAccountSucceeded, ended>>
  /\ UNCHANGED <<script, pageAt, inFlight, attempt, step, status, browserOpen, loop, i, results, personalUseResults,
                 personalUseSucceeded, dumps, lastDump, escaped>>

\* CreateAccountCatch throwing again once the list is exhausted.
CreateAccountCatchThrowsWhenExhausted ==
  /\ script = "workflow" /\ loop = "CreateAccount" /\ pc = "catch"
  /\ LET name == createAccountStrategies[i] IN
       /\ logs' = Append(logs, [tag |-> "FAIL", loop |-> loop, name |-> name])
       /\ createAccountResults' =
            Append(createAccountResults,
                   [name |-> name, success |-> FALSE, error |-> err])
  /\ IF i < Len(createAccountStrategies)
       THEN /\ i' = i + 1 /\ pc' = "try" /\ ended' = ended
            /\ escaped' = escaped /\ status' = status
       ELSE /\ i' = i /\ pc' = "exited" /\ ended' = ended
            /\ escaped' = escaped \cup {loop} /\ status' = "rejected"
  /\ \E gotoOk \in BOOLEAN : pageAt' = Navigated(gotoOk)
  /\ Resumed
  /\ UNCHANGED <<script, attempt, step, browserOpen, loop, err, results,
                 personalUseResults, createAccountSucceeded, personalUseSucceeded,
                 dumps, lastDump, tried>>

\* CreateAccountCatch with the rejection of its page.goto not caught.
CreateAccountCatchThrowsOnFailedGoto ==
  /\ script = "workflow" /\ loop = "CreateAccount" /\ pc = "catch"
  /\ LET name == createAccountStrategies[i] IN
       /\ logs' = Append(logs, [tag |-> "FAIL", loop |-> loop, name |-> name])
       /\ createAccountResults' =
            Append(createAccountResults,
                   [name |-> name, success |-> FALSE, error |-> err])
  /\ \E gotoOk \in BOOLEAN :
       /\ pageAt' = Navigated(gotoOk)
       /\ IF ~gotoOk
            THEN /\ i' = i /\ pc' = "exited" /\ ended' = ended
                 /\ escaped' = escaped \cup {loop} /\ status' = "rejected"
            ELSE /\ escaped' = escaped /\ status' = status
                 /\ IF i < Len(createAccountStrategies)
                      THEN /\ i' = i + 1 /\ pc' = "try" /\ ended' = ended
                      ELSE /\ i' = i /\ pc' = "loopEnd" /\ ended' = ended \cup {loop}
  /\ Resumed
  /\ UNCHANGED <<script, attempt, step, browserOpen, loop, err, results,
                 personalUseResults, createAccountSucceeded, personalUseSucceeded,
                 dumps, lastDump, tried>>

\* CreateAccount loop, catch block: log FAIL, push the failure, reload the
\* home page (a failed goto is swallowed), delay; then the next strategy.
CreateAccountCatch ==
  /\ script = "workflow" /\ loop = "CreateAccount" /\ pc = "catch"
  /\ LET name == createAccountStrategies[i] IN
       /\ logs' = Append(logs, [tag |-> "FAIL", loop |-> loop, name |-> name])
       /\ createAccountResults' =
            Append(createAccountResults,
                   [name |-> name, success |-> FALSE, error |-> err])
  /\ IF i < Len(createAccountStrategies)
       THEN /\ i' = i + 1 /\ pc' = "try" /\ ended' = ended
       ELSE /\ i' = i /\ pc' = "loopEnd" /\ ended' = ended \cup {loop}
  /\ \E gotoOk \in BOOLEAN : pageAt' = Navigated(gotoOk)
  /\ Resumed
  /\ UNCHANGED <<script, attempt, step, status, browserOpen, loop, err, results, personalUseResults,
                 createAccountSucceeded, personalUseSucceeded, dumps, lastDump,
                 tried, escaped>>

\* After the CreateAccount loop: warn if nothing succeeded, proceed anyway,
\* dump('post-create-account'); then the PersonalUse loop starts.
WfPostCreateAccount ==
  /\ script = "workflow" /\ loop = "CreateAccount" /\ pc = "loopEnd"
  /\ logs' = (IF ~createAccountSucceeded
                THEN Append(logs, [tag |-> "WARN", loop |-> loop, name |-> ""])
                ELSE logs)
  /\ \E shotFails \in BOOLEAN, htmlFails \in BOOLEAN :
       RecordDump(Label("post-create-account", ""), 0,
                  dumpWorkflow(shotFails, htmlFails), shotFails, htmlFails)
  /\ pc' = "try" /\ loop' = "PersonalUse" /\ i' = 1
  /\ UNCHANGED <<script, pageAt, inFlight, attempt, step, status, browserOpen, err, results, createAccountResults,
                 personalUseResults, createAccountSucceeded, personalUseSucceeded,
                 tried, ended, escaped>>

\* PersonalUse loop, try block: await strat.fn().
PersonalUseTry ==
  /\ script = "workflow" /\ loop = "PersonalUse" /\ pc = "try"
  /\ LET name == personalUseStrategies[i] IN
     \E o \in FnOutcomes(name) :
       /\ tried' = Append(tried, Invoked(name, o))
       /\ IF o = "returned"
            THEN /\ pc' = "afterDump" /\ err' = err
            ELSE /\ pc' = "catch" /\ err' = FnError(name)
  /\ pageAt' = "acted"
  /\ Resumed
  /\ UNCHANGED <<script, attempt, step, status, browserOpen, loop, i, results, createAccountResults,
                 personalUseResults, createAccountSucceeded, personalUseSucceeded,
                 dumps, lastDump, logs, ended, escaped>>

\* PersonalUse loop, try block: delay, dump(`after-personalUse-${name}`).
PersonalUseAfterDump ==
  /\ script = "workflow" /\ loop = "PersonalUse" /\ pc = "afterDump"
  /\ \E shotFails \in BOOLEAN, htmlFails \in BOOLEAN :
       RecordDump(Label("after-personalUse-", personalUseStrategies[i]), i,
                  dumpWorkflow(shotFails, htmlFails), shotFails, htmlFails)
  /\ pc' = "verify"
  /\ Resumed
  /\ UNCHANGED <<script, pageAt, attempt, step, status, browserOpen, loop, i, err, results,
                 createAccountResults, personalUseResults, createAccountSucceeded,
                 personalUseSucceeded, tried, logs, ended, escaped>>

\* PersonalUseVerify without the assignment personalUseSucceeded = true.
PersonalUseVerifyForgetsFlag ==
  /\ script = "workflow" /\ loop = "PersonalUse" /\ pc = "verify"
  /\ LET name == personalUseStrategies[i] IN
     \E signin \in BOOLEAN :
       IF ~signin
         THEN /\ tried' = SetCheck("passed")
              /\ logs' = Append(logs, [tag |-> "SUCCESS", loop |-> loop, name |-> name])
              /\ personalUseResults' =
                   Append(personalUseResults, [name |-> name, success |-> TRUE])
              /\ personalUseSucceeded' = personalUseSucceeded
              /\ pc' = "loopEnd"
              /\ ended' = ended \cup {loop}
              /\ err' = err
         ELSE /\ tried' = SetCheck("failed")
              /\ err' = CheckError(loop)
              /\ pc' = "catch"
              /\ UNCHANGED <<logs, personalUseResults, personalUseSucceeded, ended>>
  /\ UNCHANGED <<script, pageAt, inFlight, attempt, step, status, browserOpen, loop, i, results, createAccountResults,
                 createAccountSucceeded, dumps, lastDump, escaped>>

\* PersonalUse loop, try block: a URL matching signin/identifier throws;
\* otherwise log SUCCESS, push, set the flag, break.
PersonalUseVerify ==
  /\ script = "workflow" /\ loop = "PersonalUse" /\ pc = "verify"
  /\ LET name == personalUseStrategies[i] IN
     \E signin \in BOOLEAN :
       IF ~signin
         THEN /\ tried' = SetCheck("passed")
              /\ logs' = Append(logs, [tag |-> "SUCCESS", loop |-> loop, name |-> name])
              /\ personalUseResults' =
                   Append(personalUseResults, [name |-> name, success |-> TRUE])
              /\ personalUseSucceeded' = TRUE
              /\ pc' = "loopEnd"
              /\ ended' = ended \cup {loop}
              /\ err' = err
         ELSE /\ tried' = SetCheck("failed")
              /\ err' = CheckError(loop)
              /\ pc' = "catch"
              /\ UNCHANGED <<logs, personalUseResults, personalUseSucceeded, ended>>
  /\ UNCHANGED <<script, pageAt, inFlight, attempt, step, status, browserOpen, loop, i, results, createAccountResults,
                 createAccountSucceeded, dumps, lastDump, escaped>>

\* PersonalUse loop, catch block: log FAIL, push the failure, and dump
\* 'recover-to-choice-before-next' if CreateAccount had succeeded.
PersonalUseCatch ==
  /\ script = "workflow" /\ loop = "PersonalUse" /\ pc = "catch"
  /\ LET name == personalUseStrategies[i] IN
       /\ logs' = Append(logs, [tag |-> "FAIL", loop |-> loop, name |-> name])
       /\ personalUseResults' =
            Append(personalUseResults,
                   [name |-> name, success |-> FALSE, error |-> err])
  /\ IF createAccountSucceeded
       THEN \E shotFails \in BOOLEAN, htmlFails \in BOOLEAN :
              RecordDump(Label("recover-to-choice-before-next", ""), i,
                         dumpWorkflow(shotFails, htmlFails), shotFails, htmlFails)
       ELSE UNCHANGED <<dumps, lastDump>>
  /\ IF i < Len(personalUseStrategies)
       THEN /\ i' = i + 1 /\ pc' = "try" /\ ended' = ended
       ELSE /\ i' = i /\ pc' = "loopEnd" /\ ended' = ended \cup {loop}
  /\ Resumed
  /\ UNCHANGED <<script, pageAt, attempt, step, status, browserOpen, loop, err, results,
                 createAccountResults, createAccountSucceeded, personalUseSucceeded,
                 tried, escaped>>

\* After the PersonalUse loop: dump('final-state').
WfFinalState ==
  /\ script = "workflow" /\ loop = "PersonalUse" /\ pc = "loopEnd"
  /\ \E shotFails \in BOOLEAN, htmlFails \in BOOLEAN :
       RecordDump(Label("final-state", ""), 0,
                  dumpWorkflow(shotFails, htmlFails), shotFails, htmlFails)
  /\ pc' = "summary" /\ loop' = "none"
  /\ UNCHANGED <<script, pageAt, inFlight, attempt, step, status, browserOpen, i, err, results, createAccountResults,
                 personalUseResults, createAccountSucceeded, personalUseSucceeded,
                 tried, logs, ended, escaped>>

\* The summary of both result lists, browser.close, log END.
WfSummaryClose ==
  /\ script = "workflow" /\ pc = "summary"
  /\ logs' = Append(logs, [tag |-> "SUMMARY", loop |-> "none", name |-> ""])
  /\ browserOpen' = FALSE
  /\ status' = "resolved"
  /\ pc' = "exited"
  /\ UNCHANGED <<script, pageAt, inFlight, attempt, step, loop, i, err, results, createAccountResults,
                 personalUseResults, createAccountSucceeded, personalUseSucceeded,
                 dumps, lastDump, tried, ended, escaped>>

Workflow ==
  \/ WfLaunch \/ WfNewPage \/ WfGotoHome \/ WfCall
  \/ CreateAccountTry \/ CreateAccountAfterDump \/ CreateAccountVerify
  \/ CreateAccountCatch \/ WfPostCreateAccount
  \/ PersonalUseTry \/ PersonalUseAfterDump \/ PersonalUseVerify
  \/ PersonalUseCatch \/ WfFinalState \/ WfSummaryClose

\* The workflow script alone.  Every awaited call settles, by returning or
\* by raising (page calls time out after 30 s, the protocol after 120 s,
\* delay is a timer), so the script always takes its next step.
WfInit == script = "workflow" /\ Fresh

WfFairSpec == WfInit /\ [][Workflow]_vars /\ WF_vars(Workflow)


(***************************************************************************)
(* navigate-and-click-debug.js, single-loop variant with a results list.   *)
(***************************************************************************)
\* puppeteer.launch inside try / catch: a failed launch exits with status 1.
CkLaunch ==
  /\ script = "click" /\ pc = "launch"
  /\ \E ok \in BOOLEAN :
       IF ok
         THEN /\ pc' = "newPage" /\ browserOpen' = TRUE /\ status' = status
         ELSE /\ pc' = "exited" /\ status' = "exit1" /\ browserOpen' = browserOpen
  /\ UNCHANGED <<script, pageAt, inFlight, attempt, step, loop, i, err, results, createAccountResults,
                 personalUseResults, createAccountSucceeded, personalUseSucceeded,
                 dumps, lastDump, tried, logs, ended, escaped>>

\* browser.newPage is awaited outside the try: a rejection ends the script.
CkNewPage ==
  /\ script = "click" /\ pc = "newPage"
  /\ \E ok \in BOOLEAN :
       IF ok
         THEN /\ pc' = "gotoHome" /\ status' = status
         ELSE /\ pc' = "exited" /\ status' = "rejected"
  /\ UNCHANGED <<script, pageAt, inFlight, attempt, step, browserOpen, loop, i, err, results, createAccountResults,
                 personalUseResults, createAccountSucceeded, personalUseSucceeded,
                 dumps, lastDump, tried, logs, ended, escaped>>

\* One step of the flow before the loop, inside the outer try: a page call
\* that may raise, then a dump that may raise; either goes to the outer catch.
CkPrelude(at, label, next) ==
  /\ script = "click" /\ pc = at
  /\ \E callOk \in BOOLEAN :
       IF ~callOk
         THEN /\ pc' = "outerCatch" /\ err' = "Navigation timeout"
              /\ UNCHANGED <<dumps, lastDump>>
         ELSE \E shotFails \in BOOLEAN, htmlFails \in BOOLEAN :
                LET d == dumpClick(shotFails, htmlFails) IN
                  /\ RecordDump(Label(label, ""), 0, d, shotFails, htmlFails)
                  /\ IF d.raised
                       THEN /\ pc' = "outerCatch" /\ err' = ContentError
                       ELSE /\ pc' = next /\ err' = err
  /\ UNCHANGED <<script, pageAt, inFlight, attempt, step, status, browserOpen, loop, i, results, createAccountResults,
                 personalUseResults, createAccountSucceeded, personalUseSucceeded,
                 tried, logs, ended, escaped>>

\* page.goto, delay, dump('gmail-home').
CkGotoHome == CkPrelude("gotoHome", "gmail-home", "clickCreate")

\* page.evaluate clicking "Create account", delay, dump('after-create-account').
CkClickCreate == CkPrelude("clickCreate", "after-create-account", "waitChoice")

\* page.waitForSelector of the choice container, delay, dump('choice-container').
CkWaitChoice == CkPrelude("waitChoice", "choice-container", "candidates")

\* page.$$eval enumerating the candidates; then the loop starts.
CkCandidates ==
  /\ script = "click" /\ pc = "candidates"
  /\ \E callOk \in BOOLEAN :
       IF callOk
         THEN /\ pc' = "try" /\ loop' = "attempts" /\ i' = 1 /\ err' = err
         ELSE /\ pc' = "outerCatch" /\ err' = EvaluateError
              /\ UNCHANGED <<loop, i>>
  /\ UNCHANGED <<script, pageAt, inFlight, attempt, step, status, browserOpen, results, createAccountResults,
                 personalUseResults, createAccountSucceeded, personalUseSucceeded,
                 dumps, lastDump, tried, logs, ended, escaped>>

\* The call of an await expression of the loop.
CkCall == script = "click" /\ Call

\* CkTry calling fn() without await: the loop goes on while fn is in flight.
CkTryNotAwaited ==
  /\ script = "click" /\ loop = "attempts" /\ pc = "try"
  /\ Awaited \in inFlight
  /\ tried' = Append(tried, Invoked(clickAttempts[i], "returned"))
  /\ pc' = "afterDump"
  /\ UNCHANGED <<script, pageAt, inFlight, attempt, step, status, browserOpen, loop, i, err,
                 results, createAccountResults, personalUseResults,
                 createAccountSucceeded, personalUseSucceeded, dumps, lastDump, logs,
                 ended, escaped>>

\* Loop, try block: await fn().
CkTry ==
  /\ script = "click" /\ loop = "attempts" /\ pc = "try"
  /\ LET name == clickAttempts[i] IN
     \E o \in FnOutcomes(name) :
       /\ tried' = Append(tried, Invoked(name, o))
       /\ IF o = "returned"
            THEN /\ pc' = "afterDump" /\ err' = err
            ELSE /\ pc' = "catch" /\ err' = FnError(name)
  /\ Resumed
  /\ UNCHANGED <<script, pageAt, attempt, step, status, browserOpen, loop, i, results, createAccountResults,
                 personalUseResults, createAccountSucceeded, personalUseSucceeded,
                 dumps, lastDump, logs, ended, escaped>>

\* Loop, try block: delay, dump(`after-${name}`), log SUCCESS, push, break;
\* a raising dump throws into the loop's catch block.
CkAfterDump ==
  /\ script = "click" /\ loop = "attempts" /\ pc = "afterDump"
  /\ LET name == clickAttempts[i] IN
     \E shotFails \in BOOLEAN, htmlFails \in BOOLEAN :
       LET d == dumpClick(shotFails, htmlFails) IN
         /\ RecordDump(Label("after-", name), i, d, shotFails, htmlFails)
         /\ IF d.raised
              THEN /\ pc' = "catch" /\ err' = ContentError
                   /\ UNCHANGED <<logs, results, ended>>
              ELSE /\ logs' = Append(logs, [tag |-> "SUCCESS", loop |-> loop, name |-> name])
                   /\ results' = Append(results, [name |-> name, success |-> TRUE])
                   /\ pc' = "loopEnd" /\ ended' = ended \cup {loop} /\ err' = err
  /\ Resumed
  /\ UNCHANGED <<script, pageAt, attempt, step, status, browserOpen, loop, i, createAccountResults,
                 personalUseResults, createAccountSucceeded, personalUseSucceeded,
                 tried, escaped>>

\* CkCatch pushing the failure without its error message.
CkCatchDropsError ==
  /\ script = "click" /\ loop = "attempts" /\ pc = "catch"
  /\ LET name == clickAttempts[i] IN
       /\ logs' = Append(logs, [tag |-> "FAIL", loop |-> loop, name |-> name])
       /\ \E shotFails \in BOOLEAN, htmlFails \in BOOLEAN :
            LET d == dumpClick(shotFails, htmlFails) IN
              /\ RecordDump(Label("fail-", name), i, d, shotFails, htmlFails)
              /\ IF d.raised
                   THEN /\ pc' = "outerCatch" /\ err' = ContentError
                        /\ escaped' = escaped \cup {loop}
                        /\ UNCHANGED <<results, i, ended>>
                   ELSE /\ results' = Append(results, [name |-> name, success |-> FALSE])
                        /\ err' = err /\ escaped' = escaped
                        /\ IF i < Len(clickAttempts)
                             THEN /\ i' = i + 1 /\ pc' = "try" /\ ended' = ended
                             ELSE /\ i' = i /\ pc' = "loopEnd"
                                  /\ ended' = ended \cup {loop}
  /\ Resumed
  /\ UNCHANGED <<script, pageAt, attempt, step, status, browserOpen, loop, createAccountResults,
                 personalUseResults, createAccountSucceeded, personalUseSucceeded,
                 tried>>

\* Loop, catch block: log FAIL, dump(`fail-${name}`), push the failure; a raising
\* dump leaves the loop for the outer catch.
CkCatch ==
  /\ script = "click" /\ loop = "attempts" /\ pc = "catch"
  /\ LET name == clickAttempts[i] IN
       /\ logs' = Append(logs, [tag |-> "FAIL", loop |-> loop, name |-> name])
       /\ \E shotFails \in BOOLEAN, htmlFails \in BOOLEAN :
            LET d == dumpClick(shotFails, htmlFails) IN
              /\ RecordDump(Label("fail-", name), i, d, shotFails, htmlFails)
              /\ IF d.raised
                   THEN /\ pc' = "outerCatch" /\ err' = ContentError
                        /\ escaped' = escaped \cup {loop}
                        /\ UNCHANGED <<results, i, ended>>
                   ELSE /\ results' = Append(results, [name |-> name, success |-> FALSE, error |-> err])
                        /\ err' = err /\ escaped' = escaped
                        /\ IF i < Len(clickAttempts)
                             THEN /\ i' = i + 1 /\ pc' = "try" /\ ended' = ended
                             ELSE /\ i' = i /\ pc' = "loopEnd"
                                  /\ ended' = ended \cup {loop}
  /\ Resumed
  /\ UNCHANGED <<script, pageAt, attempt, step, status, browserOpen, loop, createAccountResults,
                 personalUseResults, createAccountSucceeded, personalUseSucceeded,
                 tried>>

\* After the loop: the summary of results, dump('final-state'); a raising dump goes to the
\* outer catch.
CkFinalState ==
  /\ script = "click" /\ loop = "attempts" /\ pc = "loopEnd"
  /\ logs' = Append(logs, [tag |-> "SUMMARY", loop |-> "none", name |-> ""])
  /\ \E shotFails \in BOOLEAN, htmlFails \in BOOLEAN :
       LET d == dumpClick(shotFails, htmlFails) IN
         /\ RecordDump(Label("final-state", ""), 0, d, shotFails, htmlFails)
         /\ IF d.raised
              THEN /\ pc' = "outerCatch" /\ err' = ContentError
              ELSE /\ pc' = "finally" /\ err' = err
  /\ loop' = "none"
  /\ UNCHANGED <<script, pageAt, inFlight, attempt, step, status, browserOpen, i, results, createAccountResults,
                 personalUseResults, createAccountSucceeded, personalUseSucceeded,
                 tried, ended, escaped>>

\* Outer catch: log ERROR, dump('uncaught-error'); a raising dump is thrown
\* again once the finally block has run.
CkOuterCatch ==
  /\ script = "click" /\ pc = "outerCatch"
  /\ logs' = Append(logs, [tag |-> "ERROR", loop |-> "none", name |-> ""])
  /\ \E shotFails \in BOOLEAN, htmlFails \in BOOLEAN :
       LET d == dumpClick(shotFails, htmlFails) IN
         /\ RecordDump(Label("uncaught-error", ""), 0, d, shotFails, htmlFails)
         /\ pc' = (IF d.raised THEN "finallyThrow" ELSE "finally")
  /\ loop' = "none"
  /\ UNCHANGED <<script, pageAt, inFlight, attempt, step, status, browserOpen, i, err, results, createAccountResults,
                 personalUseResults, createAccountSucceeded, personalUseSucceeded,
                 tried, ended, escaped>>

\* finally: browser.close, log END; then the pending exception, if any.
CkFinally ==
  /\ script = "click" /\ pc \in {"finally", "finallyThrow"}
  /\ browserOpen' = FALSE
  /\ logs' = Append(logs, [tag |-> "END", loop |-> "none", name |-> ""])
  /\ status' = (IF pc = "finallyThrow" THEN "rejected" ELSE "resolved")
  /\ pc' = "exited"
  /\ UNCHANGED <<script, pageAt, inFlight, attempt, step, loop, i, err, results, createAccountResults,
                 personalUseResults, createAccountSucceeded, personalUseSucceeded,
                 dumps, lastDump, tried, ended, escaped>>

Click ==
  \/ CkLaunch \/ CkNewPage \/ CkGotoHome \/ CkClickCreate
  \/ CkWaitChoice \/ CkCandidates \/ CkCall \/ CkTry \/ CkAfterDump
  \/ CkCatch \/ CkFinalState \/ CkOuterCatch \/ CkFinally

(***************************************************************************)
(* navigate-and-debug-verbose.js: one loop, outcomes only logged.          *)
(***************************************************************************)
\* puppeteer.launch is awaited outside any try: a rejection ends the script.
VbLaunch ==
  /\ script = "verbose" /\ pc = "launch"
  /\ \E ok \in BOOLEAN :
       IF ok
         THEN /\ pc' = "newPage" /\ browserOpen' = TRUE /\ status' = status
         ELSE /\ pc' = "exited" /\ status' = "rejected" /\ browserOpen' = browserOpen
  /\ UNCHANGED <<script, pageAt, inFlight, attempt, step, loop, i, err, results, createAccountResults,
                 personalUseResults, createAccountSucceeded, personalUseSucceeded,
                 dumps, lastDump, tried, logs, ended, escaped>>

\* browser.newPage is awaited outside the try: a rejection ends the script.
VbNewPage ==
  /\ script = "verbose" /\ pc = "newPage"
  /\ \E ok \in BOOLEAN :
       IF ok
         THEN /\ pc' = "gotoHome" /\ status' = status
         ELSE /\ pc' = "exited" /\ status' = "rejected"
  /\ UNCHANGED <<script, pageAt, inFlight, attempt, step, browserOpen, loop, i, err, results, createAccountResults,
                 personalUseResults, createAccountSucceeded, personalUseSucceeded,
                 dumps, lastDump, tried, logs, ended, escaped>>

\* One step of the flow before the loop, inside the outer try: a page call
\* that may raise, then a dump that may raise; either goes to the outer catch.
VbPrelude(at, label, next) ==
  /\ script = "verbose" /\ pc = at
  /\ \E callOk \in BOOLEAN :
       IF ~callOk
         THEN /\ pc' = "outerCatch" /\ err' = "Navigation timeout"
              /\ UNCHANGED <<dumps, lastDump>>
         ELSE \E shotFails \in BOOLEAN, htmlFails \in BOOLEAN :
                LET d == dumpVerbose(shotFails, htmlFails) IN
                  /\ RecordDump(Label(label, ""), 0, d, shotFails, htmlFails)
                  /\ IF d.raised
                       THEN /\ pc' = "outerCatch" /\ err' = ContentError
                       ELSE /\ pc' = next /\ err' = err
  /\ UNCHANGED <<script, pageAt, inFlight, attempt, step, status, browserOpen, loop, i, results, createAccountResults,
                 personalUseResults, createAccountSucceeded, personalUseSucceeded,
                 tried, logs, ended, escaped>>

\* page.goto, delay, dump('gmail-home').
VbGotoHome == VbPrelude("gotoHome", "gmail-home", "clickCreate")

\* page.evaluate clicking "Create account", delay, dump('after-create-account').
VbClickCreate == VbPrelude("clickCreate", "after-create-account", "waitChoice")

\* page.waitForSelector of the choice container, delay, dump('choice-container').
VbWaitChoice == VbPrelude("waitChoice", "choice-container", "candidates")

\* page.$$eval enumerating the candidates; then the loop starts.
VbCandidates ==
  /\ script = "verbose" /\ pc = "candidates"
  /\ \E callOk \in BOOLEAN :
       IF callOk
         THEN /\ pc' = "try" /\ loop' = "attempts" /\ i' = 1 /\ err' = err
         ELSE /\ pc' = "outerCatch" /\ err' = EvaluateError
              /\ UNCHANGED <<loop, i>>
  /\ UNCHANGED <<script, pageAt, inFlight, attempt, step, status, browserOpen, results, createAccountResults,
                 personalUseResults, createAccountSucceeded, personalUseSucceeded,
                 dumps, lastDump, tried, logs, ended, escaped>>

\* The call of an await expression of the loop.
VbCall == script = "verbose" /\ Call

\* Loop, try block: await fn().
VbTry ==
  /\ script = "verbose" /\ loop = "attempts" /\ pc = "try"
  /\ LET name == verboseAttempts[i] IN
     \E o \in FnOutcomes(name) :
       /\ tried' = Append(tried, Invoked(name, o))
       /\ IF o = "returned"
            THEN /\ pc' = "afterDump" /\ err' = err
            ELSE /\ pc' = "catch" /\ err' = FnError(name)
  /\ Resumed
  /\ UNCHANGED <<script, pageAt, attempt, step, status, browserOpen, loop, i, results, createAccountResults,
                 personalUseResults, createAccountSucceeded, personalUseSucceeded,
                 dumps, lastDump, logs, ended, escaped>>

\* Loop, try block: delay, dump(`after-${name}`), log SUCCESS, break;
\* a raising dump throws into the loop's catch block.
VbAfterDump ==
  /\ script = "verbose" /\ loop = "attempts" /\ pc = "afterDump"
  /\ LET name == verboseAttempts[i] IN
     \E shotFails \in BOOLEAN, htmlFails \in BOOLEAN :
       LET d == dumpVerbose(shotFails, htmlFails) IN
         /\ RecordDump(Label("after-", name), i, d, shotFails, htmlFails)
         /\ IF d.raised
              THEN /\ pc' = "catch" /\ err' = ContentError
                   /\ UNCHANGED <<logs, results, ended>>
              ELSE /\ logs' = Append(logs, [tag |-> "SUCCESS", loop |-> loop, name |-> name])
                   /\ results' = results
                   /\ pc' = "loopEnd" /\ ended' = ended \cup {loop} /\ err' = err
  /\ Resumed
  /\ UNCHANGED <<script, pageAt, attempt, step, status, browserOpen, loop, i, createAccountResults,
                 personalUseResults, createAccountSucceeded, personalUseSucceeded,
                 tried, escaped>>

\* Loop, catch block: log FAIL, dump(`fail-${name}`); a raising
\* dump leaves the loop for the outer catch.
VbCatch ==
  /\ script = "verbose" /\ loop = "attempts" /\ pc = "catch"
  /\ LET name == verboseAttempts[i] IN
       /\ logs' = Append(logs, [tag |-> "FAIL", loop |-> loop, name |-> name])
       /\ \E shotFails \in BOOLEAN, htmlFails \in BOOLEAN :
            LET d == dumpVerbose(shotFails, htmlFails) IN
              /\ RecordDump(Label("fail-", name), i, d, shotFails, htmlFails)
              /\ IF d.raised
                   THEN /\ pc' = "outerCatch" /\ err' = ContentError
                        /\ escaped' = escaped \cup {loop}
                        /\ UNCHANGED <<results, i, ended>>
                   ELSE /\ results' = results
                        /\ err' = err /\ escaped' = escaped
                        /\ IF i < Len(verboseAttempts)
                             THEN /\ i' = i + 1 /\ pc' = "try" /\ ended' = ended
                             ELSE /\ i' = i /\ pc' = "loopEnd"
                                  /\ ended' = ended \cup {loop}
  /\ Resumed
  /\ UNCHANGED <<script, pageAt, attempt, step, status, browserOpen, loop, createAccountResults,
                 personalUseResults, createAccountSucceeded, personalUseSucceeded,
                 tried>>

\* After the loop: log FINAL, dump('final-state'); a raising dump goes to the
\* outer catch.
VbFinalState ==
  /\ script = "verbose" /\ loop = "attempts" /\ pc = "loopEnd"
  /\ logs' = Append(logs, [tag |-> "FINAL", loop |-> "none", name |-> ""])
  /\ \E shotFails \in BOOLEAN, htmlFails \in BOOLEAN :
       LET d == dumpVerbose(shotFails, htmlFails) IN
         /\ RecordDump(Label("final-state", ""), 0, d, shotFails, htmlFails)
         /\ IF d.raised
              THEN /\ pc' = "outerCatch" /\ err' = ContentError
              ELSE /\ pc' = "finally" /\ err' = err
  /\ loop' = "none"
  /\ UNCHANGED <<script, pageAt, inFlight, attempt, step, status, browserOpen, i, results, createAccountResults,
                 personalUseResults, createAccountSucceeded, personalUseSucceeded,
                 tried, ended, escaped>>

\* Outer catch: log ERROR, dump('uncaught-error'); a raising dump is thrown
\* again once the finally block has run.
VbOuterCatch ==
  /\ script = "verbose" /\ pc = "outerCatch"
  /\ logs' = Append(logs, [tag |-> "ERROR", loop |-> "none", name |-> ""])
  /\ \E shotFails \in BOOLEAN, htmlFails \in BOOLEAN :
       LET d == dumpVerbose(shotFails, htmlFails) IN
         /\ RecordDump(Label("uncaught-error", ""), 0, d, shotFails, htmlFails)
         /\ pc' = (IF d.raised THEN "finallyThrow" ELSE "finally")
  /\ loop' = "none"
  /\ UNCHANGED <<script, pageAt, inFlight, attempt, step, status, browserOpen, i, err, results, createAccountResults,
                 personalUseResults, createAccountSucceeded, personalUseSucceeded,
                 tried, ended, escaped>>

\* finally: browser.close, log END; then the pending exception, if any.
VbFinally ==
  /\ script = "verbose" /\ pc \in {"finally", "finallyThrow"}
  /\ browserOpen' = FALSE
  /\ logs' = Append(logs, [tag |-> "END", loop |-> "none", name |-> ""])
  /\ status' = (IF pc = "finallyThrow" THEN "rejected" ELSE "resolved")
  /\ pc' = "exited"
  /\ UNCHANGED <<script, pageAt, inFlight, attempt, step, loop, i, err, results, createAccountResults,
                 personalUseResults, createAccountSucceeded, personalUseSucceeded,
                 dumps, lastDump, tried, ended, escaped>>

Verbose ==
  \/ VbLaunch \/ VbNewPage \/ VbGotoHome \/ VbClickCreate
  \/ VbWaitChoice \/ VbCandidates \/ VbCall \/ VbTry \/ VbAfterDump
  \/ VbCatch \/ VbFinalState \/ VbOuterCatch \/ VbFinally

(***************************************************************************)
(* The linear puppeteer-core signup script.                                *)
(***************************************************************************)
\* The stages of the flow inside the try block: an optional clickSelector
\* call first, optional further page calls, then the stage's dump.
signupStages ==
  << [click |-> "",                        calls |-> TRUE,  label |-> "gmail-home"],
     [click |-> "a[href*=/signup]",        calls |-> FALSE, label |-> "after-create-account"],
     [click |-> "",                        calls |-> TRUE,  label |-> "after-birthday-gender"],
     [click |-> "#birthdaygenderNext",     calls |-> FALSE, label |-> "after-birthdaygender-next"],
     [click |-> "",                        calls |-> TRUE,  label |-> "after-username-choice"],
     [click |-> "button[jsname=LgbsSe]",   calls |-> TRUE,  label |-> "password-form-filled"],
     [click |-> "#createpasswordNext",     calls |-> FALSE, label |-> "after-password-next"] >>

\* puppeteer.launch and browser.newPage are awaited outside the try: a
\* rejection ends the script.
SgLaunch ==
  /\ script = "signup" /\ pc = "launch"
  /\ \E launched \in BOOLEAN, paged \in BOOLEAN :
       IF launched /\ paged
         THEN /\ pc' = "stage" /\ i' = 1 /\ browserOpen' = TRUE /\ status' = status
         ELSE /\ pc' = "exited" /\ i' = i /\ browserOpen' = launched
              /\ status' = "rejected"
  /\ UNCHANGED <<script, pageAt, inFlight, attempt, step, loop, err, results, createAccountResults,
                 personalUseResults, createAccountSucceeded, personalUseSucceeded,
                 dumps, lastDump, tried, logs, ended, escaped>>

\* One stage of the try block.  A failing clickSelector dumps
\* `fail-click-${selector}` and rethrows; any exception, a dump's included,
\* goes to the catch block.
SgStage ==
  /\ script = "signup" /\ pc = "stage"
  /\ LET st == signupStages[i] IN
     \E clickOk \in (IF st.click = "" THEN {TRUE} ELSE BOOLEAN),
        callsOk \in (IF st.calls THEN BOOLEAN ELSE {TRUE}),
        shotFails \in BOOLEAN, htmlFails \in BOOLEAN :
       LET d == dumpSignup(shotFails, htmlFails) IN
         IF ~clickOk
           THEN /\ RecordDump(Label("fail-click-", st.click), 0, d, shotFails, htmlFails)
                /\ pc' = "outerCatch" /\ i' = i
                /\ err' = (IF d.raised THEN ContentError ELSE "Waiting for selector failed")
           ELSE IF ~callsOk
             THEN /\ pc' = "outerCatch" /\ i' = i
                  /\ err' = "Waiting for selector failed"
                  /\ UNCHANGED <<dumps, lastDump>>
             ELSE /\ RecordDump(Label(st.label, ""), 0, d, shotFails, htmlFails)
                  /\ IF d.raised
                       THEN /\ pc' = "outerCatch" /\ i' = i /\ err' = ContentError
                       ELSE /\ err' = err
                            /\ IF i < Len(signupStages)
                                 THEN /\ i' = i + 1 /\ pc' = "stage"
                                 ELSE /\ i' = i /\ pc' = "finally"
  /\ UNCHANGED <<script, pageAt, inFlight, attempt, step, status, browserOpen, loop, results, createAccountResults,
                 personalUseResults, createAccountSucceeded, personalUseSucceeded,
                 tried, logs, ended, escaped>>

\* catch: console.error, dump('uncaught-error'); a raising dump is thrown
\* again once the finally block has run.
SgOuterCatch ==
  /\ script = "signup" /\ pc = "outerCatch"
  /\ logs' = Append(logs, [tag |-> "ERROR", loop |-> "none", name |-> ""])
  /\ \E shotFails \in BOOLEAN, htmlFails \in BOOLEAN :
       LET d == dumpSignup(shotFails, htmlFails) IN
         /\ RecordDump(Label("uncaught-error", ""), 0, d, shotFails, htmlFails)
         /\ pc' = (IF d.raised THEN "finallyThrow" ELSE "finally")
  /\ UNCHANGED <<script, pageAt, inFlight, attempt, step, status, browserOpen, loop, i, err, results,
                 createAccountResults, personalUseResults, createAccountSucceeded,
                 personalUseSucceeded, tried, ended, escaped>>

\* finally: log END, browser.close; then the pending exception, if any.
SgFinally ==
  /\ script = "signup" /\ pc \in {"finally", "finallyThrow"}
  /\ browserOpen' = FALSE
  /\ logs' = Append(logs, [tag |-> "END", loop |-> "none", name |-> ""])
  /\ status' = (IF pc = "finallyThrow" THEN "rejected" ELSE "resolved")
  /\ pc' = "exited"
  /\ UNCHANGED <<script, pageAt, inFlight, attempt, step, loop, i, err, results, createAccountResults,
                 personalUseResults, createAccountSucceeded, personalUseSucceeded,
                 dumps, lastDump, tried, ended, escaped>>

Signup == SgLaunch \/ SgStage \/ SgOuterCatch \/ SgFinally

(***************************************************************************)
(* The retrying signup script (puppeteer-real-browser): the whole flow of  *)
(* five stages is tried again on a fresh browser, up to MAX_RETRIES times, *)
(* whenever a stage raises or a captcha is detected after it.              *)
(***************************************************************************)
\* dump(name, page) of the retrying script: both steps are guarded and the
\* error's message is logged.
dumpRetry(shotFails, htmlFails) ==
  [raised |-> FALSE,
   logged |-> (IF shotFails THEN {"page.screenshot failed"} ELSE {})
                \cup (IF htmlFails THEN {ContentError} ELSE {}),
   png    |-> ~shotFails,
   html   |-> ~htmlFails]

\* The five stages of the try block: page calls, the dump `filled` (none in
\* stage 1), clickByText 'Next' (none in stage 1), the dump `after`, and
\* then detectCaptcha.
retryStages ==
  << [filled |-> "",                     after |-> "01-name-form"],
     [filled |-> "02-name-filled",       after |-> "03-after-name-next"],
     [filled |-> "04-birthday-filled",   after |-> "05-after-birthday-next"],
     [filled |-> "06-username-selected", after |-> "07-after-username-next"],
     [filled |-> "08-password-filled",   after |-> "09-after-password-next"] >>

\* What one stage can do: a page call before the first dump raises; the
\* click on 'Next' raises; detectCaptcha raises, answers true, or answers
\* false.
StageOutcomes(st) ==
  {"callsRaised", "detectRaised", "captcha", "clear"}
    \cup (IF st.filled = "" THEN {} ELSE {"clickRaised"})

\* The record of a dump call of the retrying script.
RetryDump(name) ==
  [label |-> Label(name, ""), loop |-> "none", attempt |-> attempt, raised |-> FALSE]

\* The artifact base name a dump of the retrying script writes its .png and
\* .html to: the name it was called with, made lower-case with every run of
\* other characters replaced by '-'.  The names in use consist of lower-case
\* letters, digits and '-', so each is its own base name; only the error dump's
\* name carries the attempt number.
ArtifactOf(d) ==
  <<d.label.prefix, IF d.label.prefix = "error-attempt-" THEN d.attempt ELSE 0>>

\* The number of connect() calls that have returned a browser.
Connected == Len(SelectSeq(logs, LAMBDA l : l.tag = "CONNECTED"))

\* for (let attempt = 1; ...): the loop variable is initialised.
RtStart ==
  /\ script = "retry" /\ pc = "launch"
  /\ attempt' = 1
  /\ pc' = "connect"
  /\ UNCHANGED <<script, pageAt, inFlight, step, status, browserOpen, loop, i, err, results,
                 createAccountResults, personalUseResults, createAccountSucceeded,
                 personalUseSucceeded, dumps, lastDump, tried, logs, ended, escaped>>

\* attempt <= MAX_RETRIES, log LAUNCH, connect(): awaited outside the try, so
\* a rejection ends the script.
RtConnect ==
  /\ script = "retry" /\ pc = "connect"
  /\ attempt <= MAX_RETRIES
  /\ \E ok \in BOOLEAN :
       IF ok
         THEN /\ pc' = "stage" /\ i' = 1 /\ browserOpen' = TRUE /\ status' = status
              /\ logs' = Append(logs, [tag |-> "CONNECTED", loop |-> "none", name |-> ""])
         ELSE /\ pc' = "exited" /\ i' = i /\ browserOpen' = browserOpen
              /\ status' = "rejected" /\ logs' = logs
  /\ UNCHANGED <<script, pageAt, inFlight, attempt, step, loop, err, results,
                 createAccountResults, personalUseResults, createAccountSucceeded,
                 personalUseSucceeded, dumps, lastDump, tried, ended, escaped>>

\* RtStage going on to the next stage although a captcha was detected.
RtStageIgnoresCaptcha ==
  /\ script = "retry" /\ pc = "stage"
  /\ LET st == retryStages[i] IN
     \E o \in StageOutcomes(st), shotFails \in BOOLEAN, htmlFails \in BOOLEAN :
       LET taken == CASE o = "callsRaised" -> <<>>
                      [] o = "clickRaised" -> <<RetryDump(st.filled)>>
                      [] OTHER -> (IF st.filled = "" THEN <<>> ELSE <<RetryDump(st.filled)>>)
                                    \o <<RetryDump(st.after)>>
           d == dumpRetry(shotFails, htmlFails)
       IN  /\ dumps' = dumps \o taken
           /\ lastDump' = (IF taken = <<>> THEN lastDump
                           ELSE [label |-> taken[Len(taken)].label, raised |-> d.raised,
                                 logged |-> d.logged, png |-> d.png, html |-> d.html,
                                 shotFailed |-> shotFails, htmlFailed |-> htmlFails])
           /\ tried' = Append(tried, [attempt |-> attempt, stage |-> i,
                                      browser |-> Connected,
                                      outcome |-> (IF o \in {"captcha", "clear"} THEN o
                                                   ELSE "raised")])
           /\ IF o \in {"clear", "captcha"}
                THEN /\ err' = err
                     /\ IF i < Len(retryStages)
                          THEN /\ i' = i + 1 /\ pc' = "stage"
                          ELSE /\ i' = i /\ pc' = "success"
                ELSE /\ i' = i /\ pc' = "catch"
                     /\ err' = (CASE o = "detectRaised" -> EvaluateError
                                  [] o = "clickRaised" -> "clickByText failed"
                                  [] OTHER -> "Waiting for selector failed")
  /\ UNCHANGED <<script, pageAt, inFlight, attempt, step, status, browserOpen, loop, results,
                 createAccountResults, personalUseResults, createAccountSucceeded,
                 personalUseSucceeded, logs, ended, escaped>>

\* One stage of the try block, up to and including
\* if (await detectCaptcha(page)) throw new Error('Captcha detected').
RtStage ==
  /\ script = "retry" /\ pc = "stage"
  /\ LET st == retryStages[i] IN
     \E o \in StageOutcomes(st), shotFails \in BOOLEAN, htmlFails \in BOOLEAN :
       LET taken == CASE o = "callsRaised" -> <<>>
                      [] o = "clickRaised" -> <<RetryDump(st.filled)>>
                      [] OTHER -> (IF st.filled = "" THEN <<>> ELSE <<RetryDump(st.filled)>>)
                                    \o <<RetryDump(st.after)>>
           d == dumpRetry(shotFails, htmlFails)
       IN  /\ dumps' = dumps \o taken
           /\ lastDump' = (IF taken = <<>> THEN lastDump
                           ELSE [label |-> taken[Len(taken)].label, raised |-> d.raised,
                                 logged |-> d.logged, png |-> d.png, html |-> d.html,
                                 shotFailed |-> shotFails, htmlFailed |-> htmlFails])
           /\ tried' = Append(tried, [attempt |-> attempt, stage |-> i,
                                      browser |-> Connected,
                                      outcome |-> (IF o \in {"captcha", "clear"} THEN o
                                                   ELSE "raised")])
           /\ IF o = "clear"
                THEN /\ err' = err
                     /\ IF i < Len(retryStages)
                          THEN /\ i' = i + 1 /\ pc' = "stage"
                          ELSE /\ i' = i /\ pc' = "success"
                ELSE /\ i' = i /\ pc' = "catch"
                     /\ err' = (CASE o = "captcha" -> "Captcha detected"
                                  [] o = "detectRaised" -> EvaluateError
                                  [] o = "clickRaised" -> "clickByText failed"
                                  [] OTHER -> "Waiting for selector failed")
  /\ UNCHANGED <<script, pageAt, inFlight, attempt, step, status, browserOpen, loop, results,
                 createAccountResults, personalUseResults, createAccountSucceeded,
                 personalUseSucceeded, logs, ended, escaped>>

\* A browser.close() that returned, as a log line.
Closed == [tag |-> "CLOSED", loop |-> "none", name |-> ""]

\* After stage 5, still inside the try block: log END, browser.close,
\* return.  A rejected browser.close is caught by the catch block.
RtSuccess ==
  /\ script = "retry" /\ pc = "success"
  /\ \E closeOk \in BOOLEAN :
       IF closeOk
         THEN /\ logs' = Append(Append(logs, [tag |-> "END", loop |-> "none", name |-> ""]),
                                Closed)
              /\ browserOpen' = FALSE
              /\ status' = "resolved"
              /\ pc' = "exited"
              /\ err' = err
         ELSE /\ logs' = Append(logs, [tag |-> "END", loop |-> "none", name |-> ""])
              /\ browserOpen' = browserOpen
              /\ status' = status
              /\ pc' = "catch"
              /\ err' = "Protocol error (Browser.close)"
  /\ UNCHANGED <<script, pageAt, inFlight, attempt, step, loop, i, results,
                 createAccountResults, personalUseResults, createAccountSucceeded,
                 personalUseSucceeded, dumps, lastDump, tried, ended, escaped>>

\* RtCatch without its browser.close.
RtCatchLeavesBrowserOpen ==
  /\ script = "retry" /\ pc = "catch"
  /\ \E shotFails \in BOOLEAN, htmlFails \in BOOLEAN :
       LET d == dumpRetry(shotFails, htmlFails) IN
         /\ dumps' = Append(dumps, RetryDump("error-attempt-"))
         /\ lastDump' = [label |-> Label("error-attempt-", ""), raised |-> d.raised,
                         logged |-> d.logged, png |-> d.png, html |-> d.html,
                         shotFailed |-> shotFails, htmlFailed |-> htmlFails]
  /\ browserOpen' = browserOpen
  /\ IF attempt < MAX_RETRIES
       THEN /\ logs' = Append(logs, [tag |-> "WARN", loop |-> "none", name |-> err])
            /\ attempt' = attempt + 1 /\ pc' = "connect" /\ status' = status
       ELSE /\ logs' = Append(logs, [tag |-> "WARN", loop |-> "none", name |-> err])
            /\ attempt' = attempt /\ pc' = "exited" /\ status' = "exit1"
  /\ UNCHANGED <<script, pageAt, inFlight, step, loop, i, err, results,
                 createAccountResults, personalUseResults, createAccountSucceeded,
                 personalUseSucceeded, tried, ended, escaped>>

\* catch: log WARN, dump(`error-attempt-${attempt}`), browser.close; then the
\* next attempt if attempt < MAX_RETRIES, else process.exit(1).  A rejected
\* browser.close leaves the catch block and main.
RtCatch ==
  /\ script = "retry" /\ pc = "catch"
  /\ \E shotFails \in BOOLEAN, htmlFails \in BOOLEAN :
       LET d == dumpRetry(shotFails, htmlFails) IN
         /\ dumps' = Append(dumps, RetryDump("error-attempt-"))
         /\ lastDump' = [label |-> Label("error-attempt-", ""), raised |-> d.raised,
                         logged |-> d.logged, png |-> d.png, html |-> d.html,
                         shotFailed |-> shotFails, htmlFailed |-> htmlFails]
  /\ \E closeOk \in BOOLEAN :
       IF ~closeOk
         THEN /\ logs' = Append(logs, [tag |-> "WARN", loop |-> "none", name |-> err])
              /\ browserOpen' = browserOpen
              /\ attempt' = attempt /\ pc' = "exited" /\ status' = "rejected"
         ELSE /\ browserOpen' = FALSE
              /\ IF attempt < MAX_RETRIES
                   THEN /\ logs' = logs \o
                             << [tag |-> "WARN", loop |-> "none", name |-> err], Closed,
                                [tag |-> "INFO", loop |-> "none",
                                 name |-> "Retrying from start"] >>
                        /\ attempt' = attempt + 1 /\ pc' = "connect" /\ status' = status
                   ELSE /\ logs' = logs \o
                             << [tag |-> "WARN", loop |-> "none", name |-> err], Closed,
                                [tag |-> "ERROR", loop |-> "none",
                                 name |-> "Max retries reached"] >>
                        /\ attempt' = attempt /\ pc' = "exited" /\ status' = "exit1"
  /\ UNCHANGED <<script, pageAt, inFlight, step, loop, i, err, results,
                 createAccountResults, personalUseResults, createAccountSucceeded,
                 personalUseSucceeded, tried, ended, escaped>>

Retry == RtStart \/ RtConnect \/ RtStage \/ RtSuccess \/ RtCatch

RtInit == script = "retry" /\ Fresh

RetrySpec == RtInit /\ [][Retry]_vars

(***************************************************************************)
(* The navigate-and-capture scripts: a linear flow with a numbered         *)
(* screenshot after each step, and an error handler that is to leave an    *)
(* error screenshot and an HTML dump and exit with status 1.               *)
(*                                                                         *)
(*   "capture"       the variant whose step 2 tries a list of selectors    *)
(*   "captureXPath"  the XPath variant                                     *)
(*   "captureNames"  the variant that fills in random names                *)
(*                                                                         *)
(* For these scripts dumps holds the artifacts: the screenshots of the     *)
(* steps (kind "step") and those of the error handler.                     *)
(***************************************************************************)
CaptureScripts == {"capture", "captureXPath", "captureNames"}

\* Step 2 of the "capture" script: the selectors, in source order.
selectors ==
  <<"a[href*=CreateAccount]", "text=Create account", "//a[contains(@href, CreateAccount)]">>

\* The screenshots of the steps, in source order.
xpathSteps == <<"gmail-home", "clicked-create-account", "for-personal-use">>

namesSteps == <<"gmail-home", "filled-name", "after-next">>

\* captureScreenshot counting the step only once the screenshot is taken.
captureScreenshotCountsAfter(description, shotOk) ==
  /\ step' = (IF shotOk THEN step + 1 ELSE step)
  /\ dumps' = Append(dumps, [kind |-> "step", step |-> step + 1,
                             name |-> description, raised |-> ~shotOk])

\* captureScreenshot(description): step += 1 first, then page.screenshot
\* under the numbered name; a failing screenshot raises to the caller.
captureScreenshot(description, shotOk) ==
  /\ step' = step + 1
  /\ dumps' = Append(dumps, [kind |-> "step", step |-> step + 1,
                             name |-> description, raised |-> ~shotOk])

\* An artifact of the error handler, named after the step counter.
ErrorArtifact(kind, raised) ==
  [kind |-> kind, step |-> step, name |-> "error-step", raised |-> raised]

\* try: puppeteer.launch, browser.newPage.  Both are inside the try, so a
\* failure goes to the catch block with page undefined.
CaptureLaunch(s, first) ==
  /\ script = s /\ pc = "launch"
  /\ \E launched \in BOOLEAN, paged \in BOOLEAN :
       IF launched /\ paged
         THEN /\ pc' = first /\ i' = 1 /\ browserOpen' = TRUE /\ err' = err
              /\ logs' = Append(logs, [tag |-> "INFO", loop |-> "none",
                                       name |-> "page created"])
         ELSE /\ pc' = "outerCatchNoPage" /\ i' = i /\ browserOpen' = launched
              /\ err' = "Failed to launch the browser process"
              /\ logs' = logs
  /\ UNCHANGED <<script, pageAt, inFlight, attempt, step, status, loop, results,
                 createAccountResults, personalUseResults, createAccountSucceeded,
                 personalUseSucceeded, dumps, lastDump, tried, ended, escaped>>

\* finally: if (browser) await browser.close(); then the pending
\* exception, if any.
CaptureFinally(s) ==
  /\ script = s /\ pc \in {"finally", "finallyThrow"}
  /\ browserOpen' = FALSE
  /\ status' = (IF pc = "finallyThrow" THEN "rejected" ELSE "resolved")
  /\ pc' = "exited"
  /\ UNCHANGED <<script, pageAt, inFlight, attempt, step, loop, i, err, results,
                 createAccountResults, personalUseResults, createAccountSucceeded,
                 personalUseSucceeded, dumps, lastDump, tried, logs, ended, escaped>>

\* One step of a linear flow: its page calls, then captureScreenshot.
CaptureStep(s, steps) ==
  /\ script = s /\ pc = "step"
  /\ \E callsOk \in BOOLEAN, shotOk \in BOOLEAN :
       IF ~callsOk
         THEN /\ pc' = "outerCatch" /\ i' = i /\ err' = "Waiting failed"
              /\ UNCHANGED <<step, dumps>>
         ELSE /\ captureScreenshot(steps[i], shotOk)
              /\ IF ~shotOk
                   THEN /\ pc' = "outerCatch" /\ i' = i /\ err' = "page.screenshot failed"
                   ELSE /\ err' = err
                        /\ IF i < Len(steps)
                             THEN /\ i' = i + 1 /\ pc' = "step"
                             ELSE /\ i' = i /\ pc' = "finally"
  /\ UNCHANGED <<script, pageAt, inFlight, attempt, status, browserOpen, loop, results,
                 createAccountResults, personalUseResults, createAccountSucceeded,
                 personalUseSucceeded, lastDump, tried, logs, ended, escaped>>

(***************************************************************************)
(* navigate-and-capture.js, XPath variant.                                 *)
(***************************************************************************)
XpLaunch == CaptureLaunch("captureXPath", "step")

\* Steps 1 to 3: goto or waitForXPath, $x, click, waitForNavigation, then
\* captureScreenshot.
XpStep == CaptureStep("captureXPath", xpathSteps)

\* catch: with a page, the error screenshot, then page.content and
\* writeFileSync, none of them guarded; then process.exit(1), which ends the
\* process before the finally block.
XpCatch ==
  /\ script = "captureXPath" /\ pc \in {"outerCatch", "outerCatchNoPage"}
  /\ IF pc = "outerCatchNoPage"
       THEN /\ status' = "exit1" /\ pc' = "exited" /\ UNCHANGED <<dumps, err>>
       ELSE \E shotOk \in BOOLEAN, htmlOk \in BOOLEAN :
              IF ~shotOk
                THEN /\ dumps' = Append(dumps, ErrorArtifact("error-png", TRUE))
                     /\ pc' = "finallyThrow" /\ err' = "page.screenshot failed"
                     /\ status' = status
                ELSE /\ dumps' = dumps \o <<ErrorArtifact("error-png", FALSE),
                                             ErrorArtifact("error-html", ~htmlOk)>>
                     /\ IF htmlOk
                          THEN /\ status' = "exit1" /\ pc' = "exited" /\ err' = err
                          ELSE /\ status' = status /\ pc' = "finallyThrow"
                               /\ err' = ContentError
  /\ UNCHANGED <<script, pageAt, inFlight, attempt, step, browserOpen, loop, i, results,
                 createAccountResults, personalUseResults, createAccountSucceeded,
                 personalUseSucceeded, lastDump, tried, logs, ended, escaped>>

XpFinally == CaptureFinally("captureXPath")

CaptureXPath == XpLaunch \/ XpStep \/ XpCatch \/ XpFinally

(***************************************************************************)
(* navigate-and-capture.js, the variant that fills in random names.        *)
(***************************************************************************)
NmLaunch == CaptureLaunch("captureNames", "step")

\* Steps: goto, type the names, clickByText 'Next'; captureScreenshot after
\* each.
NmStep == CaptureStep("captureNames", namesSteps)

\* catch: with a page, the error screenshot, then
\* fs.writeFileSync(htmlf, page.content()): page.content() is not awaited,
\* writeFileSync is handed a promise and throws a TypeError, so the HTML is
\* never written and process.exit(1) is not reached.
NmCatch ==
  /\ script = "captureNames" /\ pc \in {"outerCatch", "outerCatchNoPage"}
  /\ IF pc = "outerCatchNoPage"
       THEN /\ status' = "exit1" /\ pc' = "exited" /\ UNCHANGED <<dumps, err>>
       ELSE \E shotOk \in BOOLEAN :
              /\ status' = status /\ pc' = "finallyThrow"
              /\ IF ~shotOk
                   THEN /\ dumps' = Append(dumps, ErrorArtifact("error-png", TRUE))
                        /\ err' = "page.screenshot failed"
                   ELSE /\ dumps' = dumps \o <<ErrorArtifact("error-png", FALSE),
                                                ErrorArtifact("error-html", TRUE)>>
                        /\ err' = "The data argument must be of type string"
  /\ UNCHANGED <<script, pageAt, inFlight, attempt, step, browserOpen, loop, i, results,
                 createAccountResults, personalUseResults, createAccountSucceeded,
                 personalUseSucceeded, lastDump, tried, logs, ended, escaped>>

NmFinally == CaptureFinally("captureNames")

CaptureNames == NmLaunch \/ NmStep \/ NmCatch \/ NmFinally

(***************************************************************************)
(* navigate-and-capture.js, the variant with the selector list.  let step  *)
(* and captureScreenshot are declared inside the try block.                *)
(***************************************************************************)
CpLaunch == CaptureLaunch("capture", "goto")

\* A call the flow makes, as a log line.
Called(name) == [tag |-> "CALL", loop |-> "none", name |-> name]

\* Step 1: page.goto, captureScreenshot('gmail-home').
CpGoto ==
  /\ script = "capture" /\ pc = "goto"
  /\ \E gotoOk \in BOOLEAN, shotOk \in BOOLEAN :
       IF ~gotoOk
         THEN /\ pc' = "outerCatch" /\ err' = "Navigation timeout"
              /\ UNCHANGED <<step, dumps>>
         ELSE /\ captureScreenshot("gmail-home", shotOk)
              /\ IF shotOk
                   THEN /\ pc' = "selectors" /\ err' = err
                   ELSE /\ pc' = "outerCatch" /\ err' = "page.screenshot failed"
  /\ i' = 1
  /\ UNCHANGED <<tried, logs>>
  /\ UNCHANGED <<script, pageAt, inFlight, attempt, status, browserOpen, loop, results,
                 createAccountResults, personalUseResults, createAccountSucceeded,
                 personalUseSucceeded, lastDump, ended, escaped>>

\* CpSelector going on to waitForNavigation when every selector has failed.
CpSelectorGoesOnUnclicked ==
  /\ script = "capture" /\ pc = "selectors"
  /\ \E ok \in BOOLEAN :
       /\ tried' = Append(tried, [loop |-> "selectors", name |-> selectors[i],
                                  action |-> (IF ok THEN "returned" ELSE "raised"),
                                  check |-> "none"])
       /\ IF ok \/ i = Len(selectors)
            THEN /\ pc' = "waitNav" /\ i' = i /\ err' = err
            ELSE /\ pc' = "selectors" /\ i' = i + 1 /\ err' = err
  /\ UNCHANGED <<step, dumps, logs>>
  /\ UNCHANGED <<script, pageAt, inFlight, attempt, status, browserOpen, loop, results,
                 createAccountResults, personalUseResults, createAccountSucceeded,
                 personalUseSucceeded, lastDump, ended, escaped>>

\* Step 2: one selector of the list: waitForSelector and click, or $x and
\* click, inside try / catch; the first click that succeeds breaks the loop,
\* and if (!clicked) throws once the list is exhausted.
CpSelector ==
  /\ script = "capture" /\ pc = "selectors"
  /\ \E ok \in BOOLEAN :
       /\ tried' = Append(tried, [loop |-> "selectors", name |-> selectors[i],
                                  action |-> (IF ok THEN "returned" ELSE "raised"),
                                  check |-> "none"])
       /\ IF ok
            THEN /\ pc' = "waitNav" /\ i' = i /\ err' = err
            ELSE IF i < Len(selectors)
              THEN /\ pc' = "selectors" /\ i' = i + 1 /\ err' = err
              ELSE /\ pc' = "outerCatch" /\ i' = i
                   /\ err' = "Unable to click Create account after multiple attempts"
  /\ UNCHANGED <<step, dumps, logs>>
  /\ UNCHANGED <<script, pageAt, inFlight, attempt, status, browserOpen, loop, results,
                 createAccountResults, personalUseResults, createAccountSucceeded,
                 personalUseSucceeded, lastDump, ended, escaped>>

\* Step 2, after the click: page.waitForNavigation,
\* captureScreenshot('clicked-create-account').
CpWaitNav ==
  /\ script = "capture" /\ pc = "waitNav"
  /\ logs' = Append(logs, Called("waitForNavigation"))
  /\ \E navOk \in BOOLEAN, shotOk \in BOOLEAN :
       IF ~navOk
         THEN /\ pc' = "outerCatch" /\ err' = "Navigation timeout"
              /\ UNCHANGED <<step, dumps>>
         ELSE /\ captureScreenshot("clicked-create-account", shotOk)
              /\ IF shotOk
                   THEN /\ pc' = "step3" /\ err' = err
                   ELSE /\ pc' = "outerCatch" /\ err' = "page.screenshot failed"
  /\ UNCHANGED <<i, tried>>
  /\ UNCHANGED <<script, pageAt, inFlight, attempt, status, browserOpen, loop, results,
                 createAccountResults, personalUseResults, createAccountSucceeded,
                 personalUseSucceeded, lastDump, ended, escaped>>

\* Step 3, try block: waitForSelector and click on "For my personal use".
CpStep3 ==
  /\ script = "capture" /\ pc = "step3"
  /\ \E ok \in BOOLEAN :
       /\ tried' = Append(tried, [loop |-> "step3", name |-> "div[jsname=K4r5Ff]",
                                  action |-> (IF ok THEN "returned" ELSE "raised"),
                                  check |-> "none"])
       /\ pc' = (IF ok THEN "waitNav3" ELSE "step3retry")
  /\ UNCHANGED <<i, err, step, dumps, logs>>
  /\ UNCHANGED <<script, pageAt, inFlight, attempt, status, browserOpen, loop, results,
                 createAccountResults, personalUseResults, createAccountSucceeded,
                 personalUseSucceeded, lastDump, ended, escaped>>

\* CpStep3Retry going on to the navigation wait whatever the retry did.
CpStep3RetrySwallowsFailure ==
  /\ script = "capture" /\ pc = "step3retry"
  /\ logs' = Append(logs, Called("reload"))
  /\ \E reloadOk \in BOOLEAN, ok \in BOOLEAN :
       IF ~reloadOk
         THEN /\ pc' = "waitNav3" /\ err' = "Navigation timeout" /\ tried' = tried
         ELSE /\ tried' = Append(tried, [loop |-> "step3", name |-> "div[jsname=K4r5Ff]",
                                         action |-> (IF ok THEN "returned" ELSE "raised"),
                                         check |-> "none"])
              /\ IF ok
                   THEN /\ pc' = "waitNav3" /\ err' = err
                   ELSE /\ pc' = "waitNav3" /\ err' = "Waiting for selector failed"
  /\ UNCHANGED <<i, step, dumps>>
  /\ UNCHANGED <<script, pageAt, inFlight, attempt, status, browserOpen, loop, results,
                 createAccountResults, personalUseResults, createAccountSucceeded,
                 personalUseSucceeded, lastDump, ended, escaped>>

\* Step 3, catch block: page.reload, then waitForSelector and click once
\* more; an exception here leaves step 3 for the outer catch.
CpStep3Retry ==
  /\ script = "capture" /\ pc = "step3retry"
  /\ logs' = Append(logs, Called("reload"))
  /\ \E reloadOk \in BOOLEAN, ok \in BOOLEAN :
       IF ~reloadOk
         THEN /\ pc' = "outerCatch" /\ err' = "Navigation timeout" /\ tried' = tried
         ELSE /\ tried' = Append(tried, [loop |-> "step3", name |-> "div[jsname=K4r5Ff]",
                                         action |-> (IF ok THEN "returned" ELSE "raised"),
                                         check |-> "none"])
              /\ IF ok
                   THEN /\ pc' = "waitNav3" /\ err' = err
                   ELSE /\ pc' = "outerCatch" /\ err' = "Waiting for selector failed"
  /\ UNCHANGED <<i, step, dumps>>
  /\ UNCHANGED <<script, pageAt, inFlight, attempt, status, browserOpen, loop, results,
                 createAccountResults, personalUseResults, createAccountSucceeded,
                 personalUseSucceeded, lastDump, ended, escaped>>

\* Step 3, after the click: page.waitForNavigation,
\* captureScreenshot('for-personal-use').
CpWaitNav3 ==
  /\ script = "capture" /\ pc = "waitNav3"
  /\ logs' = Append(logs, Called("waitForNavigation"))
  /\ \E navOk \in BOOLEAN, shotOk \in BOOLEAN :
       IF ~navOk
         THEN /\ pc' = "outerCatch" /\ err' = "Navigation timeout"
              /\ UNCHANGED <<step, dumps>>
         ELSE /\ captureScreenshot("for-personal-use", shotOk)
              /\ IF shotOk
                   THEN /\ pc' = "finally" /\ err' = err
                   ELSE /\ pc' = "outerCatch" /\ err' = "page.screenshot failed"
  /\ UNCHANGED <<i, tried>>
  /\ UNCHANGED <<script, pageAt, inFlight, attempt, status, browserOpen, loop, results,
                 createAccountResults, personalUseResults, createAccountSucceeded,
                 personalUseSucceeded, lastDump, ended, escaped>>

\* catch: errorBase is built from step, which is declared with let inside
\* the try block and is not in scope here: the template literal throws a
\* ReferenceError before the guarded capture and before process.exit(1).
CpCatch ==
  /\ script = "capture" /\ pc \in {"outerCatch", "outerCatchNoPage"}
  /\ err' = "step is not defined"
  /\ pc' = "finallyThrow"
  /\ UNCHANGED <<i, step, dumps, tried, logs>>
  /\ UNCHANGED <<script, pageAt, inFlight, attempt, status, browserOpen, loop, results,
                 createAccountResults, personalUseResults, createAccountSucceeded,
                 personalUseSucceeded, lastDump, ended, escaped>>

CpFinally == CaptureFinally("capture")

Capture ==
  \/ CpLaunch \/ CpGoto \/ CpSelector \/ CpWaitNav \/ CpStep3
  \/ CpStep3Retry \/ CpWaitNav3 \/ CpCatch \/ CpFinally

CaptureInit == script \in CaptureScripts /\ Fresh

CaptureNext == Capture \/ CaptureXPath \/ CaptureNames

CaptureSpec == CaptureInit /\ [][CaptureNext]_vars

(***************************************************************************)
(* The linear signup scripts with a guarded dump: the flow of              *)
(* navigate-signup-full-real.js on a connected Chrome ("signupReal") and   *)
(* signup-full.js ("signupFull").  One stage is the page calls up to a     *)
(* dump and that dump.                                                     *)
(***************************************************************************)
LinearScripts == {"signupReal", "signupFull"}

\* The labels of the dumps of the try block, in source order.
realStages ==
  <<"01-name-form", "02-name-filled", "03-after-name-next", "04-birthday-filled",
    "05-after-birthday-next", "06-username-selected", "07-after-username-next",
    "08-password-filled", "09-after-password-next">>

fullStages ==
  <<"01-name-form-load", "02-name-filled", "03-after-name-next",
    "04-birthday-form-load", "05-birthday-filled", "06-after-birthday-next",
    "07-username-options-loaded", "08-first-suggestion-selected",
    "09-after-username-next">>

\* dump(name, page): both steps are guarded and the error's message is logged.
dumpLinear(shotFails, htmlFails) ==
  [raised |-> FALSE,
   logged |-> (IF shotFails THEN {"page.screenshot failed"} ELSE {})
                \cup (IF htmlFails THEN {ContentError} ELSE {}),
   png    |-> ~shotFails,
   html   |-> ~htmlFails]

\* The browser and the page are obtained before the try block: a rejection
\* ends the script.
LinearLaunch(s) ==
  /\ script = s /\ pc = "launch"
  /\ \E ok \in BOOLEAN :
       IF ok
         THEN /\ pc' = "stage" /\ i' = 1 /\ browserOpen' = TRUE /\ status' = status
         ELSE /\ pc' = "exited" /\ i' = i /\ browserOpen' = browserOpen
              /\ status' = "rejected"
  /\ UNCHANGED <<script, pageAt, inFlight, attempt, step, loop, err, results,
                 createAccountResults, personalUseResults, createAccountSucceeded,
                 personalUseSucceeded, dumps, lastDump, tried, logs, ended, escaped>>

\* LinearStage going on to the next stage when the page calls of a stage
\* have raised.
LinearStageGoesOn(s, labels) ==
  /\ script = s /\ pc = "stage"
  /\ \E callsOk \in BOOLEAN :
       /\ IF ~callsOk
            THEN /\ err' = "Waiting for selector failed"
                 /\ UNCHANGED <<dumps, lastDump>>
            ELSE /\ \E shotFails \in BOOLEAN, htmlFails \in BOOLEAN :
                      RecordDump(Label(labels[i], ""), 0,
                                 dumpLinear(shotFails, htmlFails), shotFails, htmlFails)
                 /\ err' = err
       /\ IF i < Len(labels)
            THEN /\ i' = i + 1 /\ pc' = "stage" /\ logs' = logs
            ELSE /\ i' = i /\ pc' = "finally"
                 /\ logs' = Append(logs, [tag |-> "END", loop |-> "none", name |-> ""])
  /\ UNCHANGED <<script, pageAt, inFlight, attempt, step, status, browserOpen, loop, results,
                 createAccountResults, personalUseResults, createAccountSucceeded,
                 personalUseSucceeded, tried, ended, escaped>>

\* One stage of the try block: page calls that may raise, then the stage's
\* dump; after the last stage, log END.
LinearStage(s, labels) ==
  /\ script = s /\ pc = "stage"
  /\ \E callsOk \in BOOLEAN :
       IF ~callsOk
         THEN /\ pc' = "outerCatch" /\ i' = i /\ err' = "Waiting for selector failed"
              /\ UNCHANGED <<dumps, lastDump, logs>>
         ELSE /\ \E shotFails \in BOOLEAN, htmlFails \in BOOLEAN :
                   RecordDump(Label(labels[i], ""), 0,
                              dumpLinear(shotFails, htmlFails), shotFails, htmlFails)
              /\ err' = err
              /\ IF i < Len(labels)
                   THEN /\ i' = i + 1 /\ pc' = "stage" /\ logs' = logs
                   ELSE /\ i' = i /\ pc' = "finally"
                        /\ logs' = Append(logs, [tag |-> "END", loop |-> "none",
                                                 name |-> ""])
  /\ UNCHANGED <<script, pageAt, inFlight, attempt, step, status, browserOpen, loop, results,
                 createAccountResults, personalUseResults, createAccountSucceeded,
                 personalUseSucceeded, tried, ended, escaped>>

\* LinearCatch without its dump.
LinearCatchSkipsDump(s, label) ==
  /\ script = s /\ pc = "outerCatch"
  /\ logs' = Append(logs, [tag |-> "ERROR", loop |-> "none", name |-> ""])
  /\ pc' = "finally"
  /\ UNCHANGED <<script, pageAt, inFlight, attempt, step, status, browserOpen, loop, i, err,
                 results, createAccountResults, personalUseResults,
                 createAccountSucceeded, personalUseSucceeded, tried, ended, escaped,
                 dumps, lastDump>>

\* catch: log ERROR, dump(label).
LinearCatch(s, label) ==
  /\ script = s /\ pc = "outerCatch"
  /\ logs' = Append(logs, [tag |-> "ERROR", loop |-> "none", name |-> ""])
  /\ \E shotFails \in BOOLEAN, htmlFails \in BOOLEAN :
       RecordDump(Label(label, ""), 0,
                  dumpLinear(shotFails, htmlFails), shotFails, htmlFails)
  /\ pc' = "finally"
  /\ UNCHANGED <<script, pageAt, inFlight, attempt, step, status, browserOpen, loop, i, err,
                 results, createAccountResults, personalUseResults,
                 createAccountSucceeded, personalUseSucceeded, tried, ended, escaped>>

\* finally: browser.close.
LinearFinally(s) ==
  /\ script = s /\ pc = "finally"
  /\ browserOpen' = FALSE
  /\ status' = "resolved"
  /\ pc' = "exited"
  /\ UNCHANGED <<script, pageAt, inFlight, attempt, step, loop, i, err, results,
                 createAccountResults, personalUseResults, createAccountSucceeded,
                 personalUseSucceeded, dumps, lastDump, tried, logs, ended, escaped>>

\* navigate-signup-full-real.js: connect, the flow, dump('error').
SrLaunch == LinearLaunch("signupReal")

SrStage == LinearStage("signupReal", realStages)

SrCatch == LinearCatch("signupReal", "error")

SrFinally == LinearFinally("signupReal")

\* signup-full.js: launch and newPage before the try block (a rejected
\* newPage leaves the launched browser open), the flow, dump('error-state').
SfLaunch ==
  /\ script = "signupFull" /\ pc = "launch"
  /\ \E launched \in BOOLEAN, paged \in BOOLEAN :
       IF launched /\ paged
         THEN /\ pc' = "stage" /\ i' = 1 /\ browserOpen' = TRUE /\ status' = status
         ELSE /\ pc' = "exited" /\ i' = i /\ browserOpen' = launched
              /\ status' = "rejected"
  /\ UNCHANGED <<script, pageAt, inFlight, attempt, step, loop, err, results,
                 createAccountResults, personalUseResults, createAccountSucceeded,
                 personalUseSucceeded, dumps, lastDump, tried, logs, ended, escaped>>

SfStage == LinearStage("signupFull", fullStages)

SfCatch == LinearCatch("signupFull", "error-state")

SfFinally == LinearFinally("signupFull")

LinearInit == script \in LinearScripts /\ Fresh

LinearNext ==
  \/ SrLaunch \/ SrStage \/ SrCatch \/ SrFinally
  \/ SfLaunch \/ SfStage \/ SfCatch \/ SfFinally

LinearSpec == LinearInit /\ [][LinearNext]_vars

Next == Workflow \/ Click \/ Verbose \/ Signup

Spec == Init /\ [][Next]_vars


(***************************************************************************)
(* Vocabulary of the properties.                                           *)
(***************************************************************************)
Loops ==
  CASE script = "workflow" -> {"CreateAccount", "PersonalUse"}
    [] script \in {"click", "verbose"} -> {"attempts"}
    [] OTHER -> {}

StrategiesOf(L) ==
  CASE L = "CreateAccount" -> createAccountStrategies
    [] L = "PersonalUse" -> personalUseStrategies
    [] OTHER -> IF script = "click" THEN clickAttempts ELSE verboseAttempts

\* The SUCCESS / FAIL lines a loop has logged, as name and outcome.
Logged(L) ==
  LET lines == SelectSeq(logs, LAMBDA l : l.loop = L /\ l.tag \in {"SUCCESS", "FAIL"})
  IN  [k \in 1..Len(lines) |-> [name |-> lines[k].name,
                                success |-> lines[k].tag = "SUCCESS"]]

\* What a loop has recorded per attempt: its results list, and for the
\* verbose script, which keeps no list, its SUCCESS / FAIL log lines.
ResultsOf(L) ==
  CASE L = "CreateAccount" -> createAccountResults
    [] L = "PersonalUse" -> personalUseResults
    [] OTHER -> IF script = "click" THEN results ELSE Logged(L)

TriedIn(L) == SelectSeq(tried, LAMBDA t : t.loop = L)

\* The strategy did what it was meant to: its fn returned, and in the
\* workflow script the verification after it passed.
Succeeded(t) ==
  /\ t.action = "returned"
  /\ script = "workflow" => t.check = "passed"

\* The strategy itself failed: its fn raised, or the verification after it
\* failed or raised.
Failed(t) == t.action = "raised" \/ t.check \in {"failed", "raised"}

OverallSuccess(L) ==
  CASE L = "CreateAccount" -> createAccountSucceeded
    [] L = "PersonalUse" -> personalUseSucceeded
    [] OTHER -> \E k \in DOMAIN ResultsOf(L) : ResultsOf(L)[k].success

LoopOver(L) == L \in ended \cup escaped

Names(seq) == [k \in DOMAIN seq |-> seq[k].name]

\* Attempt k of loop L is behind the script: a later strategy was invoked
\* or the loop was left.
AttemptDone(L, k) == k < Len(TriedIn(L)) \/ (k = Len(TriedIn(L)) /\ LoopOver(L))

DumpsOf(L, k) == SelectSeq(dumps, LAMBDA d : d.loop = L /\ d.attempt = k)

IsAfter(label) == label.prefix \in {"after-", "after-createAccount-", "after-personalUse-"}

IsFail(label) == label.prefix = "fail-"

Count(seq, P(_)) == Len(SelectSeq(seq, P))


(***************************************************************************)
(* C1: when a strategy of the list succeeds, the loop ends with overall    *)
(* success, the recorded attempts are exactly the strategies up to and     *)
(* including the first succeeding one, in list order, and no strategy      *)
(* after it is invoked.                                                    *)
(***************************************************************************)
C1_StopsAtFirstSuccess ==
  \A L \in Loops :
    \A k \in DOMAIN TriedIn(L) :
      Succeeded(TriedIn(L)[k]) =>
        /\ k = Len(TriedIn(L))
        /\ LoopOver(L) =>
             /\ L \in ended
             /\ OverallSuccess(L)
             /\ Names(ResultsOf(L)) = SubSeq(StrategiesOf(L), 1, k)
             /\ ResultsOf(L)[k].success
             /\ \A j \in 1..(k - 1) : ~ResultsOf(L)[j].success

(***************************************************************************)
(* C2: when every strategy of the list fails, the loop ends with overall   *)
(* success false and one failure entry per strategy of the list, in list   *)
(* order: the loop never stops early on a failure.                         *)
(***************************************************************************)
C2_ExhaustsOnFailure ==
  \A L \in Loops :
    (LoopOver(L) /\ \A k \in DOMAIN TriedIn(L) : Failed(TriedIn(L)[k])) =>
      /\ ~OverallSuccess(L)
      /\ Names(ResultsOf(L)) = StrategiesOf(L)
      /\ \A k \in DOMAIN ResultsOf(L) : ~ResultsOf(L)[k].success

(***************************************************************************)
(* C3: dump is called exactly once for each attempted strategy, labelled   *)
(* fail-{name} or after-{name}, and exactly once more, after the loop,     *)
(* labelled final-state, whatever the strategies did.                      *)
(***************************************************************************)
C3_OneDumpPerAttempt ==
  /\ \A L \in Loops :
       \A k \in DOMAIN TriedIn(L) :
         AttemptDone(L, k) =>
           Count(dumps, LAMBDA d : /\ d.loop = L
                                   /\ d.label.name = TriedIn(L)[k].name
                                   /\ (IsAfter(d.label) \/ IsFail(d.label))) = 1
  /\ (status # "running" /\ tried # <<>>) =>
       Count(dumps, LAMBDA d : d.label.prefix = "final-state") = 1

(***************************************************************************)
(* C4: when every dump call of a loop raises, the loop still completes,    *)
(* and the outcomes are those of the run whose dumps return: a strategy    *)
(* that succeeded is recorded as the success and no strategy is attempted  *)
(* after it.                                                               *)
(***************************************************************************)
C4_DumpFailureChangesNothing ==
  \A L \in Loops :
    (/\ \E j \in DOMAIN dumps : dumps[j].loop = L
     /\ \A j \in DOMAIN dumps : dumps[j].loop = L => dumps[j].raised) =>
      /\ L \notin escaped
      /\ \A k \in DOMAIN TriedIn(L) :
           Succeeded(TriedIn(L)[k]) =>
             /\ k = Len(TriedIn(L))
             /\ LoopOver(L) => (Len(ResultsOf(L)) = k /\ ResultsOf(L)[k].success)


(***************************************************************************)
(* C5: a strategy whose fn returned and whose verification then failed is  *)
(* recorded as a failure entry carrying the verification's error, it does  *)
(* not set the overall-success flag, and the next strategy of the list is  *)
(* attempted.                                                              *)
(***************************************************************************)
C5_FailedCheckIsFailure ==
  script = "workflow" =>
    \A L \in Loops :
      \A k \in DOMAIN TriedIn(L) :
        (TriedIn(L)[k].action = "returned" /\ TriedIn(L)[k].check = "failed") =>
          /\ AttemptDone(L, k) =>
               /\ Len(ResultsOf(L)) >= k
               /\ ResultsOf(L)[k] = [name |-> StrategiesOf(L)[k], success |-> FALSE,
                                      error |-> CheckError(L)]
          /\ (LoopOver(L) /\ k < Len(StrategiesOf(L))) => Len(TriedIn(L)) > k
          /\ OverallSuccess(L) =>
               \E j \in DOMAIN TriedIn(L) : j # k /\ TriedIn(L)[j].check = "passed"

\* Both loops are over, and in each a strategy failed its verification and
\* the strategy after it was attempted.
C5_Witness ==
  /\ script = "workflow"
  /\ Loops \subseteq ended
  /\ \A L \in Loops :
       \E k \in DOMAIN TriedIn(L) :
         /\ TriedIn(L)[k].action = "returned" /\ TriedIn(L)[k].check = "failed"
         /\ k < Len(TriedIn(L))

(***************************************************************************)
(* C6: the dump taken for an attempt whose fn returned and whose           *)
(* verification then failed carries the failure label fail-{name}, not     *)
(* the success label after-{name}.                                         *)
(***************************************************************************)
C6_FailedCheckDumpsFailLabel ==
  \A L \in Loops :
    \A k \in DOMAIN TriedIn(L) :
      (/\ TriedIn(L)[k].action = "returned" /\ TriedIn(L)[k].check = "failed"
       /\ AttemptDone(L, k)) =>
        /\ \E j \in DOMAIN DumpsOf(L, k) : IsFail(DumpsOf(L, k)[j].label)
        /\ \A j \in DOMAIN DumpsOf(L, k) : ~IsAfter(DumpsOf(L, k)[j].label)

(***************************************************************************)
(* C7: no exception of a strategy's fn, of its verification or of a dump   *)
(* leaves a fallback loop: every loop ends by break or by exhaustion.      *)
(***************************************************************************)
C7_NothingEscapesLoop == escaped = {}

(***************************************************************************)
(* C8: at the end of each loop of the workflow script the overall-success  *)
(* flag is true exactly when the loop's results list holds a success       *)
(* entry.                                                                  *)
(***************************************************************************)
C8_FlagIffSuccessEntry ==
  script = "workflow" =>
    \A L \in Loops :
      LoopOver(L) =>
        (OverallSuccess(L) <=> \E k \in DOMAIN ResultsOf(L) : ResultsOf(L)[k].success)

\* The CreateAccount loop ended exhausted and the PersonalUse loop ended by
\* a success.
C8_Witness ==
  /\ script = "workflow"
  /\ Loops \subseteq ended
  /\ ~createAccountSucceeded
  /\ personalUseSucceeded
  /\ Len(personalUseResults) > 1

(***************************************************************************)
(* C9: an entry of a results list has an error field exactly when it is a  *)
(* failure entry, and then the field is the message of the error that      *)
(* made the attempt fail.                                                  *)
(***************************************************************************)
\* The message of the error that ended attempt t of loop L: thrown by fn,
\* by the verification, or else by the dump of the try block.
CaughtError(L, t) ==
  CASE t.action = "raised" -> FnError(t.name)
    [] t.action = "returned" /\ t.check = "failed" -> CheckError(L)
    [] t.action = "returned" /\ t.check = "raised" -> EvaluateError
    [] OTHER -> ContentError

C9_ErrorIffFailure ==
  script # "verbose" =>
    \A L \in Loops :
      \A k \in DOMAIN ResultsOf(L) :
        LET r == ResultsOf(L)[k] IN
          /\ ("error" \in DOMAIN r) <=> ~r.success
          /\ ~r.success => r.error = CaughtError(L, TriedIn(L)[k])

\* A results list with a failure entry followed by a success entry, in the
\* click script and in the workflow script.
C9_Witness ==
  \/ /\ script = "click"
     /\ Len(results) = 2 /\ ~results[1].success /\ results[2].success
  \/ /\ script = "workflow"
     /\ Len(personalUseResults) = 2
     /\ ~personalUseResults[1].success /\ personalUseResults[2].success

(***************************************************************************)
(* C10: dump never raises to its caller: a failing screenshot and a        *)
(* failing read or write of the page HTML are each caught and logged       *)
(* inside dump.                                                            *)
(***************************************************************************)
C10_DumpNeverRaises ==
  /\ ~lastDump.raised
  /\ Cardinality(lastDump.logged) =
       (IF lastDump.shotFailed THEN 1 ELSE 0) + (IF lastDump.htmlFailed THEN 1 ELSE 0)

(***************************************************************************)
(* C11: the dumps of a fallback run are taken in attempt order, one per    *)
(* attempted strategy, fail-{name} for a strategy that failed and          *)
(* after-{name} for the one that succeeded, and the final-state dump is    *)
(* the last dump of the run.                                               *)
(***************************************************************************)
\* Whether the dump d is the one the pattern takes for the invocation t.
DumpFor(d, t) ==
  /\ d.label.name = t.name
  /\ IF Succeeded(t) THEN IsAfter(d.label) ELSE IsFail(d.label)

C11_DumpsInAttemptOrder ==
  \A L \in Loops :
    (LoopOver(L) /\ status # "running") =>
      LET T == TriedIn(L)
          D == SelectSeq(dumps, LAMBDA d : d.loop = L /\ d.attempt > 0)
      IN  /\ Len(D) = Len(T)
          /\ \A k \in DOMAIN T : DumpFor(D[k], T[k])
          /\ dumps[Len(dumps)].label.prefix = "final-state"

(***************************************************************************)
(* C12: strategies run one at a time.  At most one awaited call of a loop  *)
(* is in flight; while the fn of strategy k is in flight every strategy    *)
(* before k has settled and been recorded and no dump of attempt k exists  *)
(* yet; while a dump is in flight it belongs to the strategy invoked last. *)
(***************************************************************************)
C12_OneAtATime ==
  /\ Cardinality(inFlight) <= 1
  /\ \A c \in inFlight :
       /\ c.loop = loop
       /\ c.op = "fn" =>
            /\ Len(TriedIn(c.loop)) = c.i - 1
            /\ \A j \in DOMAIN dumps :
                 dumps[j].loop = c.loop => dumps[j].attempt < c.i
       /\ c.op # "fn" => Len(TriedIn(c.loop)) = c.i

\* The fn of a second or later strategy is in flight, and the attempt
\* before it has its dump.
C12_Witness ==
  \E c \in inFlight :
    /\ c.op = "fn" /\ c.i >= 2
    /\ DumpsOf(c.loop, c.i - 1) # <<>>

(***************************************************************************)
(* C13: the workflow script takes at least one dump during every attempt   *)
(* of the CreateAccount loop and of the PersonalUse loop, whether the      *)
(* strategy's fn raised, its verification failed or it succeeded.          *)
(***************************************************************************)
C13_DumpInEveryAttempt ==
  script = "workflow" =>
    \A L \in Loops :
      \A k \in DOMAIN TriedIn(L) :
        AttemptDone(L, k) => DumpsOf(L, k) # <<>>

(***************************************************************************)
(* C14: the workflow script never aborts early.  Once the page is created, *)
(* whatever the navigation, the strategies, the verifications and the      *)
(* dumps do, the run comes to the PersonalUse loop, the final-state dump,  *)
(* the summary and browser.close.                                          *)
(***************************************************************************)
WfRanToEnd ==
  /\ \E k \in DOMAIN tried : tried[k].loop = "PersonalUse"
  /\ "PersonalUse" \in ended
  /\ \E k \in DOMAIN dumps : dumps[k].label.prefix = "final-state"
  /\ \E k \in DOMAIN logs : logs[k].tag = "SUMMARY"
  /\ ~browserOpen
  /\ status = "resolved"

C14_NeverAbortsEarly ==
  (script = "workflow" /\ pc = "gotoHome") ~> WfRanToEnd

\* The run is over after a failed initial navigation and a CreateAccount
\* loop in which every strategy failed.
C14_Witness ==
  /\ WfRanToEnd
  /\ \E k \in DOMAIN logs : logs[k].name = "Goto failed"
  /\ ~createAccountSucceeded
  /\ Len(createAccountResults) = Len(createAccountStrategies)

FailedAttempts == Len(SelectSeq(logs, LAMBDA l : l.tag = "WARN"))

\* The stages attempt a has run, in order.
StagesOf(a) == SelectSeq(tried, LAMBDA t : t.attempt = a)

Completed(a) ==
  /\ Len(StagesOf(a)) = Len(retryStages)
  /\ \A k \in DOMAIN StagesOf(a) :
       StagesOf(a)[k].stage = k /\ StagesOf(a)[k].outcome = "clear"

C16_ReturnsOrExhausts ==
  script = "retry" =>
    /\ pc # "launch" => attempt \in 1..MAX_RETRIES
    /\ Connected <= MAX_RETRIES
    /\ status # "running" =>
         \/ /\ status = "resolved"
            /\ Completed(attempt)
            /\ \A a \in 1..(attempt - 1) : ~Completed(a)
            /\ FailedAttempts = attempt - 1
         \/ /\ status = "exit1"
            /\ attempt = MAX_RETRIES
            /\ FailedAttempts = MAX_RETRIES

(***************************************************************************)
(* C17: in the navigate-and-capture scripts, whenever a step raises after  *)
(* the page was created, the error handler takes the error screenshot and  *)
(* writes the error HTML dump, and the process then exits with status 1.   *)
(***************************************************************************)
PageCreated == \E k \in DOMAIN logs : logs[k].name = "page created"

Written(kind) == \E k \in DOMAIN dumps : dumps[k].kind = kind /\ ~dumps[k].raised

C17_ErrorHandlerCaptures ==
  (script \in CaptureScripts /\ PageCreated /\ err # "" /\ status # "running") =>
    /\ Written("error-png")
    /\ Written("error-html")
    /\ status = "exit1"

(***************************************************************************)
(* C19: step 2 of navigate-and-capture.js tries the selectors in list      *)
(* order and stops at the first one whose click succeeds; when every       *)
(* selector has failed the step throws, and neither waitForNavigation nor  *)
(* step 3 nor another step screenshot is executed.                         *)
(***************************************************************************)
SelectorsTried == SelectSeq(tried, LAMBDA t : t.loop = "selectors")

SelectorsExhausted ==
  /\ Len(SelectorsTried) = Len(selectors)
  /\ \A k \in DOMAIN SelectorsTried : SelectorsTried[k].action = "raised"

C19_SelectorsInOrderThenAbort ==
  script = "capture" =>
    /\ Names(SelectorsTried) = SubSeq(selectors, 1, Len(SelectorsTried))
    /\ \A k \in DOMAIN SelectorsTried :
         SelectorsTried[k].action = "returned" => k = Len(SelectorsTried)
    /\ (pc \notin {"launch", "goto", "selectors"} /\ PageCreated /\ SelectorsTried # <<>>) =>
         \/ SelectorsTried[Len(SelectorsTried)].action = "returned"
         \/ SelectorsExhausted
    /\ SelectorsExhausted =>
         /\ pc \in {"outerCatch", "finallyThrow", "exited"}
         /\ status \in {"running", "rejected"}
         /\ \A k \in DOMAIN logs : logs[k].tag # "CALL"
         /\ \A k \in DOMAIN tried : tried[k].loop # "step3"
         /\ Len(SelectSeq(dumps, LAMBDA d : d.kind = "step")) = 1

\* Every selector of the list has failed and the script is over.
C19_Witness ==
  /\ script = "capture"
  /\ SelectorsExhausted
  /\ status = "rejected"

(***************************************************************************)
(* C20: the step counter starts at 0 and goes up by exactly one with every *)
(* captureScreenshot call, so the numbers of a run's step screenshots are  *)
(* 1, 2, 3, ... in call order; an error artifact carries the number of     *)
(* captureScreenshot calls started before the error.                       *)
(***************************************************************************)
StepShots(seq) == SelectSeq(seq, LAMBDA d : d.kind = "step")

StagesOfScript == IF script = "signupReal" THEN realStages ELSE fullStages

ErrorLabels == {"error", "error-state"}

StageDumps == SelectSeq(dumps, LAMBDA d : d.label.prefix \notin ErrorLabels)

C18_StageDumpsInOrder ==
  script \in LinearScripts =>
    /\ [k \in DOMAIN StageDumps |-> StageDumps[k].label.prefix]
         = SubSeq(StagesOfScript, 1, Len(StageDumps))
    /\ err # "" =>
         /\ pc # "stage"
         /\ Len(StageDumps) = i - 1
         /\ \A k \in DOMAIN dumps :
              dumps[k].label.prefix \in ErrorLabels => k = Len(dumps) /\ k = i

\* A stage after the second has raised and the run is over: the dumps are
\* those of the stages before it and the error dump.
C18_Witness ==
  /\ script \in LinearScripts
  /\ err # "" /\ i > 2
  /\ status = "resolved"
  /\ Len(dumps) = i

\* C21: in every script, on every path on which the browser was launched,
\* browser.close is called before the process ends, when the flow completes
\* and when a step raises: a script that is over has no browser left open.
C21_BrowserClosedBeforeEnd ==
  status # "running" => ~browserOpen

\* Number of browser.close calls that returned so far.
ClosedCount == Count(logs, LAMBDA l : l.tag = "CLOSED")

C23_CompletedFlowIsFinal ==
  script = "retry" =>
    \A k \in 1 .. Len(logs) :
      logs[k].tag = "END" =>
        /\ \A j \in (k + 1) .. Len(logs) : logs[j].tag = "CLOSED"
        /\ ~ \E d \in 1 .. Len(dumps) :
               /\ dumps[d].label.prefix = "error-attempt-"
               /\ dumps[d].attempt = Connected
        /\ status # "exit1"

C25_PersonalUseClickAtMostTwice ==
  script = "capture" =>
    LET t == TriedIn("step3")
        reloads == Count(logs, LAMBDA l : l = Called("reload"))
        shot == \E d \in 1 .. Len(dumps) : dumps[d].name = "for-personal-use"
    IN  /\ Len(t) <= 2 /\ reloads <= 1
        /\ reloads = 1 => (Len(t) >= 1 /\ t[1].action = "raised")
        /\ Len(t) = 2 => reloads = 1
        /\ (reloads = 1 /\ (Len(t) = 1 \/ t[Len(t)].action = "raised")) =>
             /\ pc \in {"outerCatch", "finallyThrow", "exited"}
             /\ err # ""
             /\ status # "resolved"
             /\ ~shot

\* C25 witness: the first attempt failed, the page was reloaded, the second
\* attempt failed too and the outer catch block is entered.
C25_Witness ==
  /\ script = "capture" /\ pc = "outerCatch"
  /\ Len(TriedIn("step3")) = 2
  /\ TriedIn("step3")[2].action = "raised"
  /\ \E k \in 1 .. Len(logs) : logs[k] = Called("reload")

\* The END log line has been reached.
EndLogged == \E k \in 1 .. Len(logs) : logs[k].tag = "END"

\* Number of error dumps taken.
ErrorDumps == Count(dumps, LAMBDA d : d.label.prefix \in ErrorLabels)

C27_NoCaptureOverwrites ==
  script = "retry" =>
    \A j, k \in 1 .. Len(dumps) :
      j < k => ArtifactOf(dumps[j]) # ArtifactOf(dumps[k])

====
